---- MODULE Spec2Model ----
(***************************************************************************)
(* A model of obinexus/bustcall: the dimensional cache manager             *)
(* (src/src/dimensional_cache.rs), the FaultTorrent staging daemon         *)
(* (src/src/bin/daemon.rs), the process delegation tree                    *)
(* (src/src/delegation.rs), the PID watcher daemon                         *)
(* (src/src/pid_watcher.rs) and the self-healing architecture              *)
(* (src/src/self_healing.rs).                                              *)
(*                                                                         *)
(* Numbers: hot_path_score is an f32; it is kept here in units of          *)
(* 1/ScoreOne, ScoreOne a power of two large enough that every halving the *)
(* bounds allow is exact, as it is in f32.  Eviction scores are kept in    *)
(* tenths (0.3 * access_frequency is 3 * access_frequency tenths).         *)
(***************************************************************************)
EXTENDS Integers, Sequences, FiniteSets, TLC

\* ------------------------------------------------------------------ bounds
\* Rebuild requests the heap may hold before the cache commands stop busting.
MaxHeap == 2

\* Tasks submitted to the staging daemon in one run.
MaxTasks == 3

\* Delegation requests submitted to the delegation tree in one run.
MaxRequests == 2

\* PID changes the watcher of a target observes in one run.
MaxPidChanges == 3

\* Monitor intervals the clock of the delegation tree counts up to.
MaxTime == 4

\* Calls of attempt_recovery in one run.
MaxAttempts == 2

\* Ticks of heartbeat_monitor in one run.
MaxTicks == 3

\* The greatest fault score, in hundredths, the fault reports add up to.
MaxScore == 40
\* The daemon is started at most MaxStarts times and its tasks perform at most
\* MaxOperations periodic operations.
MaxStarts == 2
MaxOperations == 3
\* At most MaxVotes votes are recorded for a task.
MaxVotes == 3
\* A Soft strategy has a retry count of at most MaxRetries.
MaxRetries == 3

\* ------------------------------------------------------------- input sets
TargetNames == {"t1", "t2"}
Pids == {0, 4321}          \* 0 stands for None
NoPid == 0

Hot == "Hot"
Warm == "Warm"
Cold == "Cold"
Stale == "Stale"
CacheState == {Hot, Warm, Cold, Stale}

Low == "Low"
Medium == "Medium"
High == "High"
Critical == "Critical"
CacheBustSeverity == {Low, Medium, High, Critical}

\* 1.0 as a hot_path_score, in model units.
ScoreOne == 2 ^ (MaxHeap + 1)

\* Outcomes of the Redis publish at the end of bust_cache.
RedisOutcomes == {"published", "connection_refused", "publish_failed"}

VARIABLES
    model_bindings,     \* DashMap<String, ModelBinding>: target -> [pid]
    diram_dimensions,   \* DashMap<String, DiramDimension>: target -> [cache_state, hot_path_score]
    cache_evicons,      \* DashMap<String, CacheEvicon>: key -> entry
    cache_entries,      \* heap_prioritizer.cache_entries, in push order
    evict_thread,       \* "idle", or "blocked" once cache_evict waits for a shard lock it holds
    last_call,          \* the cache call made by the last step, with its result
    \* FaultTorrentStaging (src/src/bin/daemon.rs)
    nodes,              \* HashMap<String, ProcessNode>: node id -> [child_nodes]
    delegation_queue,   \* BTreeMap<u8, VecDeque<DelegationTask>>: priority -> tier
    child_processes,    \* HashMap<String, Child>: task id -> state of the process
    task_channel,       \* the tasks sent on task_sender, in order
    engine,             \* task_delegation_engine: where it is, on which task
    popped,             \* the tasks the engine popped since the last enqueue
    \* ProcessDelegationTree (src/src/delegation.rs)
    tree_nodes,         \* HashMap<String, DelegationNode>
    active_processes,   \* HashMap<String, Child>: node id -> state of the process
    delegation_channel, \* the requests sent and not yet received
    responses,          \* what each processed request was answered, in order
    next_uuid,          \* the delegate node ids generated so far
    processor,          \* delegation_request_processor: "running" or "panicked"
    now,                \* the clock, in monitor intervals
    registration,       \* execute_delegation between its writes of the registry
    callers,            \* the calls of delegate_task: deadline and outcome of each
    \* BustCallDaemon (src/src/pid_watcher.rs)
    watchers,           \* HashMap<String, RuntimeWatcher>, one PID thread each
    daemon_running,     \* Arc<Mutex<bool>>
    fs_threads,         \* target -> where its filesystem watcher thread is
    supervision,        \* where start_daemon with its supervision_loop is
    \* SelfHealingArchitecture (src/src/self_healing.rs)
    recovery_history,   \* Vec<RecoveryAttempt>
    violation_history,  \* constitution_validator.violation_history
    emergency_protocols, \* EmergencyProtocols: lockdown, board, isolation level
    recovery_call,      \* the last attempt_recovery: error, remediation done, result
    \* Heartbeats (src/src/bin/daemon.rs, src/src/bin/bustcall-daemon.rs)
    config,             \* FaultTorrentConfig: [heartbeat_interval], in seconds
    clock,              \* SystemTime::now(), in seconds since the daemon was created
    heartbeat_ticks,    \* the ticks heartbeat_monitor has taken
    node_registry,      \* ConsensusNetwork.node_registry: node id -> [fault_score]
    \* Daemon (src/src/core/mod.rs)
    core_status,        \* Arc<Mutex<DaemonStatus>>
    shutdown_tx,        \* Option<mpsc::Sender<()>>: TRUE for Some
    daemon_tasks,       \* the tasks start spawned, each with its shutdown channel
    stop_pc,            \* where the caller is inside stop
    core_call,          \* the last call of start or stop that returned
    cache_operations,   \* the periodic operations the tasks have performed
    \* Consensus of the staging daemon (src/src/bin/daemon.rs)
    consensus_votes,    \* HashMap<String, Vec<ConsensusVote>>: task id -> votes
    consensus_reached   \* the task ids the coordinator's last tick found approved

cacheVars == <<model_bindings, diram_dimensions, cache_evicons, cache_entries,
               evict_thread, last_call>>

stagingVars == <<nodes, delegation_queue, child_processes, task_channel, engine,
                 popped>>

treeVars == <<tree_nodes, active_processes, delegation_channel, responses,
              next_uuid, processor, now, registration, callers>>

watcherVars == <<watchers, daemon_running, fs_threads, supervision>>

healingVars == <<recovery_history, violation_history, emergency_protocols,
                 recovery_call>>

heartVars == <<config, clock, heartbeat_ticks, node_registry>>

coreVars == <<core_status, shutdown_tx, daemon_tasks, stop_pc, core_call, cache_operations>>
consensusVars == <<consensus_votes, consensus_reached>>
vars == <<cacheVars, stagingVars, treeVars, watcherVars, healingVars, heartVars, coreVars,
          consensusVars>>

\* --------------------------------------------------------------- helpers
Min(a, b) == IF a < b THEN a ELSE b

Range(q) == {q[i] : i \in DOMAIN q}

\* DashMap::insert: the key is added or its value replaced.
MapInsert(f, k, v) == [x \in DOMAIN f \cup {k} |-> IF x = k THEN v ELSE f[x]]

\* A removal that removes nothing.
MapRemove_nothing(f, S) == f

\* DashMap::remove of each key of S.
MapRemove(f, S) == [x \in DOMAIN f \ S |-> f[x]]

EmptyMap == [x \in {} |-> 0]

NoWeights == [language_priority |-> 0, dependency_impact |-> 0, critical_path |-> FALSE]

NoStrategy == [kind |-> "none", weights |-> NoWeights]

\* A call of the cache manager: its arguments, what it selected and removed
\* from cache_evicons, and what it returned.
Call(op, target, severity, strategy, result, selected, removed, evicted) ==
    [op |-> op, target |-> target, severity |-> severity, strategy |-> strategy,
     result |-> result, selected |-> selected, removed |-> removed,
     evicted |-> evicted]

\* A step that calls nothing of the cache manager.
NoCall == Call("none", "", "", NoStrategy, "Ok", <<>>, {}, <<>>)

NoCacheCall ==
    /\ last_call' = NoCall
    /\ UNCHANGED <<model_bindings, diram_dimensions, cache_evicons, cache_entries,
                   evict_thread>>

\* ------------------------------------------------- DimensionalCacheManager
\* DimensionalCacheManager::new: empty maps, an empty heap, a Redis client
\* (Client::open only parses the URL, so redis_client is always Some).
InitCache ==
    /\ model_bindings = EmptyMap
    /\ diram_dimensions = EmptyMap
    /\ cache_evicons = EmptyMap
    /\ cache_entries = <<>>
    /\ evict_thread = "idle"
    /\ last_call = Call("new", "", "", NoStrategy, "Ok", <<>>, {}, <<>>)

\* The vector bind_model creates.
FreshDiram == [hot_path_score |-> 0, cache_state |-> Cold]

\* A call of bind_model: a call that returned Ok, with the binding it was given.
BindCall(target_name, binding) ==
    [op |-> "bind_model", target |-> target_name, binding |-> binding,
     severity |-> "", strategy |-> NoStrategy, result |-> "Ok", selected |-> <<>>,
     removed |-> {}, evicted |-> <<>>]

\* bind_model inserting only for a target that is not bound yet.
bind_model_keep(target_name, binding) ==
    /\ model_bindings' = IF target_name \in DOMAIN model_bindings THEN model_bindings
                          ELSE MapInsert(model_bindings, target_name, binding)
    /\ diram_dimensions' = IF target_name \in DOMAIN diram_dimensions
                            THEN diram_dimensions
                            ELSE MapInsert(diram_dimensions, target_name, FreshDiram)
    /\ last_call' = BindCall(target_name, binding)
    /\ UNCHANGED <<cache_evicons, cache_entries, evict_thread>>

\* bind_model: the binding and a new vector are inserted under the target
\* name, replacing what was there.
bind_model(target_name, binding) ==
    /\ model_bindings' = MapInsert(model_bindings, target_name, binding)
    /\ diram_dimensions' = MapInsert(diram_dimensions, target_name, FreshDiram)
    /\ last_call' = BindCall(target_name, binding)
    /\ UNCHANGED <<cache_evicons, cache_entries, evict_thread>>

\* hot_path_score *= 0.5
HalveScore_keep(score) == score

HalveScore(score) == score \div 2

\* The state bust_cache gives the vector.
BustedState_keep(state) == state

BustedState(state) == Stale

BustVector_insert(target) ==
    MapInsert(diram_dimensions, target,
              [hot_path_score |-> 0, cache_state |-> Stale])

\* bust_cache, lines 212-216: the vector of a bound target goes Stale and its
\* score is halved; an unknown target has no vector and nothing is updated.
BustVector(target) ==
    IF target \in DOMAIN diram_dimensions
    THEN [diram_dimensions EXCEPT ![target] =
            [hot_path_score |-> HalveScore(@.hot_path_score),
             cache_state |-> BustedState(@.cache_state)]]
    ELSE diram_dimensions

\* bust_cache, lines 218-222: the keys of the entries bound to the target.
removed_keys_first(target) ==
    LET ks == {k \in DOMAIN cache_evicons : cache_evicons[k].model_binding = target}
    IN  IF ks = {} THEN {} ELSE {CHOOSE k \in ks : TRUE}

removed_keys(target) ==
    {k \in DOMAIN cache_evicons : cache_evicons[k].model_binding = target}

priority_score_flat(severity) ==
    CASE severity = Low -> 1
      [] severity = Medium -> 5
      [] severity = High -> 10
      [] severity = Critical -> 10

priority_score(severity) ==
    CASE severity = Low -> 1
      [] severity = Medium -> 5
      [] severity = High -> 10
      [] severity = Critical -> 50

\* queue_rebuild: one PriorityEntry pushed on the heap.  Nothing in the source
\* pops the heap, so it is kept in push order; its timestamp is never read.
queue_rebuild(target, severity) ==
    Append(cache_entries,
           [cache_id |-> target, priority_score |-> priority_score(severity)])

\* bust_cache, lines 231-240: get_connection()? returns the error of a refused
\* connection; Cmd::execute panics when the PUBLISH fails.
BustResult(redis) ==
    CASE redis = "published" -> "Ok"
      [] redis = "connection_refused" -> "Err"
      [] redis = "publish_failed" -> "panic"

\* bust_cache: what one call does to the cache state, and its result.
bust_cache(target, severity, redis) ==
    /\ evict_thread = "idle"
    /\ diram_dimensions' = BustVector(target)
    /\ cache_evicons' = MapRemove(cache_evicons, removed_keys(target))
    /\ cache_entries' = queue_rebuild(target, severity)
    /\ last_call' = Call("bust_cache", target, severity, NoStrategy,
                         BustResult(redis), <<>>, removed_keys(target), <<>>)
    /\ UNCHANGED <<model_bindings, evict_thread>>

\* monitor_pid_changes: when the pid changed, the binding (if there is one)
\* takes the new pid and the target is busted with severity Medium, whatever
\* the new pid is; when it did not change, nothing is done.
monitor_pid_changes(target, old_pid, new_pid, redis) ==
    IF old_pid # new_pid
    THEN /\ evict_thread = "idle"
         /\ model_bindings' =
                IF target \in DOMAIN model_bindings
                THEN [model_bindings EXCEPT ![target].pid = new_pid]
                ELSE model_bindings
         /\ diram_dimensions' = BustVector(target)
         /\ cache_evicons' = MapRemove(cache_evicons, removed_keys(target))
         /\ cache_entries' = queue_rebuild(target, Medium)
         /\ last_call' = Call("bust_cache", target, Medium, NoStrategy,
                              BustResult(redis), <<>>, removed_keys(target), <<>>)
         /\ UNCHANGED evict_thread
    ELSE NoCacheCall

\* A client of the cache manager calls bust_cache.
BustCache(target, severity, redis) ==
    /\ Len(cache_entries) < MaxHeap
    /\ bust_cache(target, severity, redis)
    /\ UNCHANGED <<stagingVars, treeVars, watcherVars, healingVars, heartVars, coreVars, consensusVars>>

\* A client of the cache manager calls bind_model.
BindModel(target_name, binding) ==
    /\ bind_model(target_name, binding)
    /\ UNCHANGED <<stagingVars, treeVars, watcherVars, healingVars, heartVars, coreVars, consensusVars>>

\* calculate_eviction_score, in tenths.
calculate_eviction_score(evicon, weights) ==
    LET access_component == evicon.access_frequency * 3
        integrity_component == evicon.integrity_score * 2
        dependency_component == evicon.dependency_depth * weights.dependency_impact
        language_component == weights.language_priority
        critical_path_modifier == IF weights.critical_path THEN 2 ELSE 1
    IN  (access_component + integrity_component + dependency_component
            + language_component) * critical_path_modifier

\* cache_evict, lines 151-156: the filter looks the vector up under the entry's
\* key (entry.key()), and keeps the entry when that vector is Cold or Stale.
ModelAwareCandidates ==
    {k \in DOMAIN cache_evicons :
        /\ k \in DOMAIN diram_dimensions
        /\ diram_dimensions[k].cache_state \in {Cold, Stale}}

\* The batch size of cache_evict: candidates.iter().take(3).
EvictBatch == 3

\* candidates.sort_by(score) then take(3): sort_by is stable and DashMap's
\* iteration order is unspecified, so any order of equal scores can come out.
SortedBatches(candidates, weights) ==
    LET n == Min(EvictBatch, Cardinality(candidates))
        score(k) == calculate_eviction_score(cache_evicons[k], weights)
    IN  {q \in [1..n -> candidates] :
            /\ \A i, j \in 1..n : i < j => q[i] # q[j] /\ score(q[i]) <= score(q[j])
            /\ \A k \in candidates \ Range(q) : \A i \in 1..n : score(q[i]) <= score(k)}

\* cache_evict, lines 175-181: the entry with the least last_access.
OldestFirst ==
    {q \in [1..Min(1, Cardinality(DOMAIN cache_evicons)) -> DOMAIN cache_evicons] :
        \A i \in DOMAIN q : \A k \in DOMAIN cache_evicons :
            cache_evicons[q[i]].last_access <= cache_evicons[k].last_access}

\* A selection that takes the oldest entry for every strategy but ModelAware.
EvictSelections_oldest(strategy) ==
    CASE strategy.kind = "ModelAware" ->
            SortedBatches(ModelAwareCandidates, strategy.weights)
      [] OTHER -> OldestFirst

\* What the strategy selects for removal.
EvictSelections(strategy) ==
    CASE strategy.kind = "ModelAware" ->
            SortedBatches(ModelAwareCandidates, strategy.weights)
      [] strategy.kind = "LRU" -> OldestFirst
      [] OTHER -> {<<>>}

\* DashMap::iter yields RefMulti guards, each holding the read lock of its
\* shard; `candidates` keeps them alive across the removal loop, so
\* DashMap::remove (the write lock of the same shard, lines 168 and 180) waits
\* for a lock its own thread holds.
RemoveBlocks(selected) == selected # <<>>

\* cache_evict: with nothing selected it returns the empty list; otherwise the
\* call stops at its first remove with the batch selected and nothing removed.
cache_evict(strategy) ==
    /\ evict_thread = "idle"
    /\ \E selected \in EvictSelections(strategy) :
        IF RemoveBlocks(selected)
        THEN /\ evict_thread' = "blocked"
             /\ last_call' = Call("cache_evict", "", "", strategy, "blocked",
                                  selected, {}, <<>>)
             /\ UNCHANGED cache_evicons
        ELSE /\ cache_evicons' = MapRemove(cache_evicons, Range(selected))
             /\ last_call' = Call("cache_evict", "", "", strategy, "Ok",
                                  selected, Range(selected), selected)
             /\ UNCHANGED evict_thread
    /\ UNCHANGED <<model_bindings, diram_dimensions, cache_entries>>
    /\ UNCHANGED <<stagingVars, treeVars, watcherVars, healingVars, heartVars, coreVars, consensusVars>>

\* An entry enters cache_evicons (no function of the source inserts one).
InsertEvicon(key, evicon) ==
    /\ evict_thread = "idle"
    /\ cache_evicons' = MapInsert(cache_evicons, key, evicon)
    /\ last_call' = Call("insert", key, "", NoStrategy, "Ok", <<>>, {}, <<>>)
    /\ UNCHANGED <<model_bindings, diram_dimensions, cache_entries, evict_thread>>
    /\ UNCHANGED <<stagingVars, treeVars, watcherVars, healingVars, heartVars, coreVars, consensusVars>>

\* An access to a bound target: its vector warms up (no function of the
\* source sets Hot or Warm, or raises hot_path_score).
AccessVector(target, state) ==
    /\ target \in DOMAIN diram_dimensions
    /\ diram_dimensions' = [diram_dimensions EXCEPT ![target] =
            [hot_path_score |-> ScoreOne, cache_state |-> state]]
    /\ last_call' = Call("access", target, "", NoStrategy, "Ok", <<>>, {}, <<>>)
    /\ UNCHANGED <<model_bindings, cache_evicons, cache_entries, evict_thread>>
    /\ UNCHANGED <<stagingVars, treeVars, watcherVars, healingVars, heartVars, coreVars, consensusVars>>

\* ------------------------------------------------------ FaultTorrentStaging
\* The root of the staging registry and the name register_root_node binds.
RootNodeId == "root"

RootBinding == "fault-torrent-root"

\* std::process::id() of the daemon.
DaemonPid == 4321

\* FaultLevel, by its discriminants, which order it.
FaultWarning == 0
FaultCritical == 3
FaultDanger == 6
FaultPanic == 9
FaultLevel == {FaultWarning, FaultCritical, FaultDanger, FaultPanic}

\* ProcessNode, by the fields the daemon reads.
ProcessNode(child_nodes, fault_level, last_heartbeat) ==
    [child_nodes |-> child_nodes, fault_level |-> fault_level,
     last_heartbeat |-> last_heartbeat]

\* The id register_child_node and terminate_task give the node of a task.
ChildNodeId(task_id) == "child-" \o task_id

\* No task in hand.
NoTask ==
    [task_id |-> "", target_node |-> "", priority |-> 0, timeout_seconds |-> 0,
     proof_required |-> FALSE, challenge |-> FALSE, seq |-> 0]

\* The engine between two tasks, and the engine after its loop returned.
EngineAt(pc) == [pc |-> pc, task |-> NoTask, ticks |-> 0]

\* FaultTorrentStaging::new: empty registry, queue and handle map.
InitStaging ==
    /\ nodes = EmptyMap
    /\ delegation_queue = EmptyMap
    /\ child_processes = EmptyMap
    /\ task_channel = <<>>
    /\ engine = EngineAt("new")
    /\ popped = <<>>

\* start_daemon: register_root_node inserts the root and binds it to the cache,
\* then the services are spawned and the engine enters its loop.
start_daemon ==
    /\ engine.pc = "new"
    /\ nodes' = MapInsert(nodes, RootNodeId, ProcessNode(<<>>, FaultWarning, clock))
    /\ bind_model(RootBinding, [pid |-> DaemonPid])
    /\ engine' = EngineAt("idle")
    /\ UNCHANGED <<delegation_queue, child_processes, task_channel, popped>>
    /\ UNCHANGED <<treeVars, watcherVars, healingVars, heartVars, coreVars, consensusVars>>

\* queue.entry(priority).or_insert_with(VecDeque::new).push_back(task)
push_back(queue, task) ==
    IF task.priority \in DOMAIN queue
    THEN [queue EXCEPT ![task.priority] = Append(@, task)]
    ELSE MapInsert(queue, task.priority, <<task>>)

\* delegate_task: the challenge is attached when a proof is required, the task
\* is pushed on the tier of its priority and sent on the channel, and the
\* target is busted; an error of the bust is the result of the call, with the
\* task queued.  seq is the position of the task in submission order.
delegate_task(task, redis) ==
    /\ Len(task_channel) < MaxTasks
    /\ LET queued == [task EXCEPT !.challenge = task.proof_required,
                                  !.seq = Len(task_channel) + 1]
       IN  /\ delegation_queue' = push_back(delegation_queue, queued)
           /\ task_channel' = Append(task_channel, queued)
    /\ bust_cache(task.target_node, Medium, redis)
    /\ popped' = <<>>
    /\ UNCHANGED <<nodes, child_processes, engine>>
    /\ UNCHANGED <<treeVars, watcherVars, healingVars, heartVars, coreVars, consensusVars>>

\* queue.iter_mut().max_by_key(|(priority, _)| *priority): the tier of the
\* greatest key present, empty or not.
max_by_key(queue) == CHOOSE p \in DOMAIN queue : \A q \in DOMAIN queue : q <= p

\* tasks.pop_front()
pop_front_back(tasks) ==
    [task |-> tasks[Len(tasks)], rest |-> SubSeq(tasks, 1, Len(tasks) - 1)]

pop_front(tasks) == [task |-> Head(tasks), rest |-> Tail(tasks)]

\* Whether the engine's pop returns a task.
PopsTask(queue) == DOMAIN queue # {} /\ queue[max_by_key(queue)] # <<>>

\* validate_proof_of_work: Ok(true) for every challenge.
validate_proof_of_work(challenge) == TRUE

\* Outcomes of Command::spawn.
SpawnOutcomes == {"spawned", "spawn_failed"}

\* register_child_node: the node of the task is inserted (replacing a node of
\* the same id) and its id pushed on the root's child list, if there is a root.
register_child_node(registry, task) ==
    LET id == ChildNodeId(task.task_id)
        inserted == MapInsert(registry, id, ProcessNode(<<>>, FaultWarning, clock))
    IN  IF RootNodeId \in DOMAIN inserted
        THEN [inserted EXCEPT ![RootNodeId].child_nodes = Append(@, id)]
        ELSE inserted

\* One iteration of task_delegation_engine that pops a task (an iteration that
\* pops none sleeps and changes nothing), with execute_delegated_task up to the
\* start of the monitoring: the proof is validated, the process spawned, the
\* node registered and the handle stored.  A failed spawn ends the engine.
task_delegation_engine(spawn) ==
    /\ engine.pc = "idle"
    /\ PopsTask(delegation_queue)
    /\ LET tier == max_by_key(delegation_queue)
           front == pop_front(delegation_queue[tier])
           task == front.task
       IN  /\ delegation_queue' = [delegation_queue EXCEPT ![tier] = front.rest]
           /\ popped' = Append(popped, task)
           /\ IF task.challenge /\ ~validate_proof_of_work(task.challenge)
              THEN /\ engine' = EngineAt("stopped")
                   /\ UNCHANGED <<nodes, child_processes>>
              ELSE IF spawn = "spawn_failed"
              THEN /\ engine' = EngineAt("stopped")
                   /\ UNCHANGED <<nodes, child_processes>>
              ELSE /\ nodes' = register_child_node(nodes, task)
                   /\ child_processes' =
                        MapInsert(child_processes, task.task_id, "running")
                   /\ engine' = [pc |-> "monitoring", task |-> task, ticks |-> 0]
    /\ NoCacheCall
    /\ UNCHANGED task_channel
    /\ UNCHANGED <<treeVars, watcherVars, healingVars, heartVars, coreVars, consensusVars>>

\* The process of a task exits by itself.
ProcessExits(task_id) ==
    /\ task_id \in DOMAIN child_processes
    /\ child_processes[task_id] = "running"
    /\ child_processes' = [child_processes EXCEPT ![task_id] = "exited"]
    /\ NoCacheCall
    /\ UNCHANGED <<nodes, delegation_queue, task_channel, engine, popped>>
    /\ UNCHANGED <<treeVars, watcherVars, healingVars, heartVars, coreVars, consensusVars>>

\* Sleeps of monitor_task_execution (500 ms) in one second of timeout.
TicksPerSecond == 2

TimeoutTicks(task) == task.timeout_seconds * TicksPerSecond

\* monitor_task_execution, one turn of its loop before the timeout: the sleep,
\* then try_wait.  An exited process (or a missing handle) ends the monitoring
\* and the engine goes on to its next task; the handle and the node stay.
monitor_task_execution ==
    /\ engine.pc = "monitoring"
    /\ engine.ticks < TimeoutTicks(engine.task)
    /\ LET id == engine.task.task_id
       IN  IF id \in DOMAIN child_processes /\ child_processes[id] = "running"
           THEN engine' = [engine EXCEPT !.ticks = @ + 1]
           ELSE engine' = EngineAt("idle")
    /\ NoCacheCall
    /\ UNCHANGED <<nodes, delegation_queue, child_processes, task_channel, popped>>
    /\ UNCHANGED <<treeVars, watcherVars, healingVars, heartVars, coreVars, consensusVars>>

\* child_nodes.retain(|id| id != &node_id)
retain(child_nodes, node_id) == SelectSeq(child_nodes, LAMBDA id : id # node_id)

\* The timeout of monitor_task_execution fires (when the last sleep ends at the
\* deadline either may win) and terminate_task runs: the handle is removed and
\* the process killed, the node is removed from the registry and from the
\* root's child list, and the node id is busted with severity High.  An error
\* of the bust ends the engine.
terminate_task(redis) ==
    /\ engine.pc = "monitoring"
    /\ engine.ticks + 1 >= TimeoutTicks(engine.task)
    /\ LET task_id == engine.task.task_id
           node_id == ChildNodeId(task_id)
           removed == MapRemove(nodes, {node_id})
       IN  /\ child_processes' = MapRemove(child_processes, {task_id})
           /\ nodes' = IF RootNodeId \in DOMAIN removed
                       THEN [removed EXCEPT ![RootNodeId].child_nodes =
                                retain(@, node_id)]
                       ELSE removed
           /\ bust_cache(node_id, High, redis)
    /\ engine' = IF BustResult(redis) = "Ok" THEN EngineAt("idle")
                                             ELSE EngineAt("stopped")
    /\ UNCHANGED <<delegation_queue, task_channel, popped>>
    /\ UNCHANGED <<treeVars, watcherVars, healingVars, heartVars, coreVars, consensusVars>>

\* ----------------------------------------------------------------- consensus
\* ByzantineVote, without the Challenge variant.
ByzantineVote == {"Approve", "Reject", "Abstain"}

\* FaultTorrentStaging::new: no vote is recorded.
InitConsensus ==
    /\ consensus_votes = EmptyMap
    /\ consensus_reached = {}

\* A vote on a task is recorded.
RecordVote(task_id, vote) ==
    /\ IF task_id \in DOMAIN consensus_votes
       THEN /\ Len(consensus_votes[task_id]) < MaxVotes
            /\ consensus_votes' = [consensus_votes EXCEPT ![task_id] = Append(@, vote)]
       ELSE consensus_votes' = MapInsert(consensus_votes, task_id, <<vote>>)
    /\ UNCHANGED consensus_reached
    /\ UNCHANGED <<cacheVars, stagingVars, treeVars, watcherVars, healingVars, heartVars,
                   coreVars>>

\* evaluate_consensus: Ok(true) for every list of votes.
evaluate_consensus(votes) == TRUE

\* byzantine_consensus_coordinator, one tick: the votes of every task are
\* evaluated and the tasks whose consensus is reached are logged.
byzantine_consensus_coordinator ==
    /\ engine.pc # "new"
    /\ consensus_reached' =
         {task_id \in DOMAIN consensus_votes : evaluate_consensus(consensus_votes[task_id])}
    /\ UNCHANGED consensus_votes
    /\ UNCHANGED <<cacheVars, stagingVars, treeVars, watcherVars, healingVars, heartVars,
                   coreVars>>

\* ---------------------------------------------------------------- heartbeats
\* FaultTorrentConfig, by the field heartbeat_monitor reads, in seconds.
FaultTorrentConfig(heartbeat_interval) == [heartbeat_interval |-> heartbeat_interval]

\* FaultTorrentConfig::default: heartbeat_interval_ms is 1000.
DefaultConfig == FaultTorrentConfig(1)

\* A ConsensusNode, by its fault_score, an f32 kept in hundredths.
ConsensusNode(fault_score) == [fault_score |-> fault_score]

\* The daemon with the default configuration; initialize_consensus_network
\* creates an empty registry.
InitHeart ==
    /\ config = DefaultConfig
    /\ clock = 0
    /\ heartbeat_ticks = 0
    /\ node_registry = EmptyMap

\* Seconds without a heartbeat after which heartbeat_monitor takes a node for
\* failed.
StaleAfter == 10

\* heartbeat_monitor, the loop over the registry under the write lock: a node
\* whose last heartbeat is more than StaleAfter seconds old is set to Critical,
\* the last heartbeat of every other node is set to the current time.
beat(node, current_time) ==
    IF current_time - node.last_heartbeat > StaleAfter
    THEN [node EXCEPT !.fault_level = FaultCritical]
    ELSE [node EXCEPT !.last_heartbeat = current_time]

\* heartbeat_monitor, one turn of its loop: the tick (the first one completes
\* at once, every other one an interval after the one before), the loop over
\* the registry, and handle_node_failure, which does nothing.
heartbeat_monitor ==
    /\ engine.pc # "new"
    /\ heartbeat_ticks < MaxTicks
    /\ LET current_time == IF heartbeat_ticks = 0 THEN clock
                           ELSE clock + config.heartbeat_interval
       IN  /\ clock' = current_time
           /\ nodes' = [id \in DOMAIN nodes |-> beat(nodes[id], current_time)]
    /\ heartbeat_ticks' = heartbeat_ticks + 1
    /\ NoCacheCall
    /\ UNCHANGED <<delegation_queue, child_processes, task_channel, engine, popped>>
    /\ UNCHANGED <<config, node_registry>>
    /\ UNCHANGED <<treeVars, watcherVars, healingVars, coreVars, consensusVars>>

\* A node joins the consensus registry with no fault recorded.
RegisterConsensusNode(node_id) ==
    /\ node_id \notin DOMAIN node_registry
    /\ node_registry' = MapInsert(node_registry, node_id, ConsensusNode(0))
    /\ UNCHANGED <<config, clock, heartbeat_ticks>>
    /\ UNCHANGED <<cacheVars, stagingVars, treeVars, watcherVars, healingVars, coreVars, consensusVars>>

\* ConsensusMessage, by the fields handle_consensus_message reads.
Heartbeat(from_node) ==
    [message_type |-> "Heartbeat", from_node |-> from_node, faulty_node |-> "",
     severity |-> 0]

FaultReport(from_node, faulty_node, severity) ==
    [message_type |-> "FaultReport", from_node |-> from_node,
     faulty_node |-> faulty_node, severity |-> severity]

\* fault_score * 0.9, rounded to the nearest hundredth as f32 rounds to the
\* nearest float, then .max(0.0).
decay(fault_score) ==
    LET product == (fault_score * 9 + 5) \div 10
    IN  IF product > 0 THEN product ELSE 0

\* handle_consensus_message: a Heartbeat decays the fault score of its sender,
\* a FaultReport adds a tenth of the severity to the score of the node it
\* names; a message about a node that is not registered changes nothing.
handle_consensus_message(message) ==
    /\ IF message.message_type = "Heartbeat"
       THEN /\ message.from_node \in DOMAIN node_registry
            /\ node_registry' = [node_registry EXCEPT ![message.from_node].fault_score =
                                    decay(@)]
       ELSE /\ message.faulty_node \in DOMAIN node_registry
            /\ node_registry[message.faulty_node].fault_score + message.severity * 10
                    <= MaxScore
            /\ node_registry' = [node_registry EXCEPT ![message.faulty_node].fault_score =
                                    @ + message.severity * 10]
    /\ UNCHANGED <<config, clock, heartbeat_ticks>>
    /\ UNCHANGED <<cacheVars, stagingVars, treeVars, watcherVars, healingVars, coreVars, consensusVars>>

\* ---------------------------------------------------- ProcessDelegationTree
Root == "Root"
Intermediate == "Intermediate"
Leaf == "Leaf"
Isolated == "Isolated"
DelegationAuthority == {Root, Intermediate, Leaf, Isolated}

\* ProcessExecutionState, with the time its variant carries.
ExecutionState(kind, at) == [kind |-> kind, at |-> at]

ProcessExecutionState == {"Pending", "Spawning", "Running", "Completed", "Failed", "Terminated"}

\* parent_node_id of the root.
NoParent == ""

\* execute_delegation between its writes: "none" outside of it, "inserted"
\* with the node in the registry, "linked" with the parent updated too.
Registration(pc, delegate_node_id, delegator_node_id) ==
    [pc |-> pc, delegate_node_id |-> delegate_node_id,
     delegator_node_id |-> delegator_node_id]

NoRegistration == Registration("none", "", "")

\* ProcessDelegationTree::new with initialize_root_node: the root is Running
\* with authority Root, and no process handle is stored for it.
InitTree ==
    /\ tree_nodes = MapInsert(EmptyMap, RootNodeId,
            [parent_node_id |-> NoParent, child_node_ids |-> {},
             execution_state |-> ExecutionState("Running", 0),
             delegation_authority |-> Root])
    /\ active_processes = EmptyMap
    /\ delegation_channel = <<>>
    /\ responses = <<>>
    /\ next_uuid = 0
    /\ processor = "running"
    /\ now = 0
    /\ registration = NoRegistration
    /\ callers = <<>>

\* ProcessDelegationTree::delegate_task: the request is sent to the processor;
\* the caller then waits for the response.
submit_delegation(delegator_node_id, delegation_spec) ==
    /\ Len(delegation_channel) + Len(responses)
         + (IF registration.pc = "none" THEN 0 ELSE 1) < MaxRequests
    /\ delegation_channel' = Append(delegation_channel,
            [delegator_node_id |-> delegator_node_id,
             delegation_spec |-> delegation_spec])
    /\ NoCacheCall
    /\ UNCHANGED <<tree_nodes, active_processes, responses, next_uuid, processor, now>>
    /\ UNCHANGED <<registration, callers>>
    /\ UNCHANGED <<stagingVars, watcherVars, healingVars, heartVars, coreVars, consensusVars>>

\* DelegationResponse; "dropped" is a request whose response channel was
\* dropped without an answer, the caller's receive failing.
Response(kind, delegate_node_id) ==
    [kind |-> kind, success |-> kind = "success", delegate_node_id |-> delegate_node_id]

\* nodes.get(&request.delegator_node_id): whether the delegator is registered.
delegator_found_any(delegator_node_id) == TRUE

delegator_found(delegator_node_id) == delegator_node_id \in DOMAIN tree_nodes

can_delegate(delegator, spec) == TRUE

initiate_consensus(request) == [approved |-> TRUE]

\* format!("delegate-{}", Uuid::new_v4()): an id no earlier call produced.
NewDelegateId == "delegate-" \o ToString(next_uuid + 1)

\* The parent of a new node left as it was.
update_parent_skipped(registry, parent_id, delegate_node_id) == registry

\* nodes.get_mut(&request.delegator_node_id), child_node_ids.insert: the id of
\* the new node joins the child set of its parent, if the parent is registered.
update_parent(registry, parent_id, delegate_node_id) ==
    IF parent_id \in DOMAIN registry
    THEN [registry EXCEPT ![parent_id].child_node_ids = @ \cup {delegate_node_id}]
    ELSE registry

\* delegation_request_processor: one request is received and
\* process_delegation_request runs on it.  An unknown delegator is answered
\* with a failure.  Otherwise execute_delegation spawns the process, inserts
\* the node (Running, Leaf), adds it to the parent's child set, stores the
\* handle and busts the node id with severity Medium; a failed spawn or a
\* failed bust returns the error with no response sent.
delegation_request_processor(spawn, redis) ==
    /\ processor = "running"
    /\ delegation_channel # <<>>
    /\ delegation_channel' = Tail(delegation_channel)
    /\ LET request == Head(delegation_channel)
           delegator == request.delegator_node_id
           id == NewDelegateId
           delegate_node ==
                [parent_node_id |-> delegator, child_node_ids |-> {},
                 execution_state |-> ExecutionState("Running", now),
                 delegation_authority |-> Leaf]
           inserted == MapInsert(tree_nodes, id, delegate_node)
       IN  IF ~delegator_found(delegator)
           THEN /\ responses' = Append(responses, Response("delegator_not_found", ""))
                /\ NoCacheCall
                /\ UNCHANGED <<tree_nodes, active_processes, next_uuid, processor>>
           ELSE IF ~can_delegate(tree_nodes[delegator], request.delegation_spec)
           THEN /\ responses' = Append(responses, Response("insufficient_authority", ""))
                /\ NoCacheCall
                /\ UNCHANGED <<tree_nodes, active_processes, next_uuid, processor>>
           ELSE IF ~initiate_consensus(request).approved
           THEN /\ responses' = Append(responses, Response("consensus_failed", ""))
                /\ NoCacheCall
                /\ UNCHANGED <<tree_nodes, active_processes, next_uuid, processor>>
           ELSE IF spawn = "spawn_failed"
           THEN /\ responses' = Append(responses, Response("dropped", ""))
                /\ NoCacheCall
                /\ UNCHANGED <<tree_nodes, active_processes, next_uuid, processor>>
           ELSE /\ next_uuid' = next_uuid + 1
                /\ tree_nodes' = update_parent(inserted, delegator, id)
                /\ active_processes' = MapInsert(active_processes, id, "running")
                /\ bust_cache(id, Medium, redis)
                /\ responses' = Append(responses,
                        IF BustResult(redis) = "Ok" THEN Response("success", id)
                                                    ELSE Response("dropped", ""))
                /\ processor' = IF BustResult(redis) = "panic" THEN "panicked"
                                                               ELSE "running"
    /\ UNCHANGED now
    /\ UNCHANGED <<registration, callers>>
    /\ UNCHANGED <<stagingVars, watcherVars, healingVars, heartVars, coreVars, consensusVars>>

\* Exit statuses of a delegated process.
ExitStatuses == {"exited_ok", "exited_failed"}

\* The process of a delegate node exits by itself.
DelegateExits(node_id, status) ==
    /\ node_id \in DOMAIN active_processes
    /\ active_processes[node_id] = "running"
    /\ active_processes' = [active_processes EXCEPT ![node_id] = status]
    /\ NoCacheCall
    /\ UNCHANGED <<tree_nodes, delegation_channel, responses, next_uuid, processor, now>>
    /\ UNCHANGED <<registration, callers>>
    /\ UNCHANGED <<stagingVars, watcherVars, healingVars, heartVars, coreVars, consensusVars>>

\* process_monitor, one tick: try_wait on every handle; the handles of exited
\* processes are removed and their nodes set Completed or Failed.  Nothing is
\* compared with a timeout, and no node is removed.  The clock moves on by one
\* interval, up to MaxTime.
process_monitor ==
    /\ now' = Min(now + 1, MaxTime)
    /\ LET completed_processes ==
                {id \in DOMAIN active_processes : active_processes[id] = "exited_ok"}
           failed_processes ==
                {id \in DOMAIN active_processes : active_processes[id] = "exited_failed"}
       IN  /\ active_processes' =
                MapRemove(active_processes, completed_processes \cup failed_processes)
           /\ tree_nodes' =
                [id \in DOMAIN tree_nodes |->
                    IF id \in completed_processes
                    THEN [tree_nodes[id] EXCEPT !.execution_state =
                                ExecutionState("Completed", now')]
                    ELSE IF id \in failed_processes
                    THEN [tree_nodes[id] EXCEPT !.execution_state =
                                ExecutionState("Failed", now')]
                    ELSE tree_nodes[id]]
    /\ NoCacheCall
    /\ UNCHANGED <<delegation_channel, responses, next_uuid, processor>>
    /\ UNCHANGED <<registration, callers>>
    /\ UNCHANGED <<stagingVars, watcherVars, healingVars, heartVars, coreVars, consensusVars>>

\* process_delegation_request with execute_delegation up to its first write of
\* the registry: the failures are answered as in delegation_request_processor;
\* otherwise the process is spawned and the node inserted, under the write
\* lock, which is then released.
execute_delegation_insert(spawn) ==
    /\ processor = "running"
    /\ registration.pc = "none"
    /\ delegation_channel # <<>>
    /\ delegation_channel' = Tail(delegation_channel)
    /\ LET request == Head(delegation_channel)
           delegator == request.delegator_node_id
           id == NewDelegateId
           delegate_node ==
                [parent_node_id |-> delegator, child_node_ids |-> {},
                 execution_state |-> ExecutionState("Running", now),
                 delegation_authority |-> Leaf]
       IN  IF ~delegator_found(delegator)
           THEN /\ responses' = Append(responses, Response("delegator_not_found", ""))
                /\ UNCHANGED <<tree_nodes, next_uuid, registration>>
           ELSE IF ~can_delegate(tree_nodes[delegator], request.delegation_spec)
           THEN /\ responses' = Append(responses, Response("insufficient_authority", ""))
                /\ UNCHANGED <<tree_nodes, next_uuid, registration>>
           ELSE IF ~initiate_consensus(request).approved
           THEN /\ responses' = Append(responses, Response("consensus_failed", ""))
                /\ UNCHANGED <<tree_nodes, next_uuid, registration>>
           ELSE IF spawn = "spawn_failed"
           THEN /\ responses' = Append(responses, Response("dropped", ""))
                /\ UNCHANGED <<tree_nodes, next_uuid, registration>>
           ELSE /\ next_uuid' = next_uuid + 1
                /\ tree_nodes' = MapInsert(tree_nodes, id, delegate_node)
                /\ registration' = Registration("inserted", id, delegator)
                /\ UNCHANGED responses
    /\ NoCacheCall
    /\ UNCHANGED <<active_processes, processor, now, callers>>
    /\ UNCHANGED <<stagingVars, watcherVars, healingVars, heartVars, coreVars, consensusVars>>

\* execute_delegation, its second write of the registry: the write lock is
\* taken again and the parent updated.
execute_delegation_update_parent ==
    /\ registration.pc = "inserted"
    /\ tree_nodes' = update_parent(tree_nodes, registration.delegator_node_id,
                                   registration.delegate_node_id)
    /\ registration' = [registration EXCEPT !.pc = "linked"]
    /\ NoCacheCall
    /\ UNCHANGED <<active_processes, delegation_channel, responses, next_uuid,
                   processor, now, callers>>
    /\ UNCHANGED <<stagingVars, watcherVars, healingVars, heartVars, coreVars, consensusVars>>

\* execute_delegation from the store of the handle: the handle is stored, the
\* node id busted with severity Medium and the response sent, or dropped on
\* an error of the bust.
execute_delegation_finish(redis) ==
    /\ registration.pc = "linked"
    /\ LET id == registration.delegate_node_id
       IN  /\ active_processes' = MapInsert(active_processes, id, "running")
           /\ bust_cache(id, Medium, redis)
           /\ responses' = Append(responses,
                   IF BustResult(redis) = "Ok" THEN Response("success", id)
                                               ELSE Response("dropped", ""))
    /\ processor' = IF BustResult(redis) = "panic" THEN "panicked" ELSE "running"
    /\ registration' = NoRegistration
    /\ UNCHANGED <<tree_nodes, delegation_channel, next_uuid, now, callers>>
    /\ UNCHANGED <<stagingVars, watcherVars, healingVars, heartVars, coreVars, consensusVars>>

\* config.delegation_timeout_seconds, in intervals of the clock.
delegation_timeout_seconds == 2

\* A call of delegate_task: the time its timeout ends and its outcome
\* ("waiting" until it returns).
Caller(deadline, outcome) == [deadline |-> deadline, outcome |-> outcome]

\* delegate_task to its await: the request is sent to the processor and the
\* caller waits for response_rx under timeout(delegation_timeout_seconds).
\* Calls are taken while the clock of the model has room for their timeout.
delegate_task_send(delegator_node_id, delegation_spec) ==
    /\ Len(callers) < MaxRequests
    /\ now + delegation_timeout_seconds <= MaxTime
    /\ delegation_channel' = Append(delegation_channel,
            [delegator_node_id |-> delegator_node_id,
             delegation_spec |-> delegation_spec])
    /\ callers' = Append(callers, Caller(now + delegation_timeout_seconds, "waiting"))
    /\ NoCacheCall
    /\ UNCHANGED <<tree_nodes, active_processes, responses, next_uuid, processor, now,
                   registration>>
    /\ UNCHANGED <<stagingVars, watcherVars, healingVars, heartVars, coreVars, consensusVars>>

\* A wait that never ends by itself.
Elapsed_never(caller) == FALSE

\* timeout(..): the time of the timeout has come.
Elapsed(caller) == now >= caller.deadline

\* What the processor did with the request of call i, requests being taken
\* in the order of the calls: nothing yet, a response sent, or the response
\* channel dropped.
ResponseChannel(i) ==
    IF i > Len(responses) THEN "empty"
    ELSE IF responses[i].kind = "dropped" THEN "closed"
    ELSE "sent"

\* delegate_task from its await: timeout polls response_rx first, which gives
\* the response or, the sender being dropped, a RecvError; with neither, the
\* timeout having ended gives Elapsed.
delegate_task_return(i) ==
    /\ i \in DOMAIN callers
    /\ callers[i].outcome = "waiting"
    /\ ResponseChannel(i) # "empty" \/ Elapsed(callers[i])
    /\ callers' = [callers EXCEPT ![i] =
            Caller(@.deadline,
                   CASE ResponseChannel(i) = "sent" -> "Ok"
                     [] ResponseChannel(i) = "closed" -> "RecvError"
                     [] OTHER -> "Elapsed")]
    /\ NoCacheCall
    /\ UNCHANGED <<tree_nodes, active_processes, delegation_channel, responses, next_uuid,
                   processor, now, registration>>
    /\ UNCHANGED <<stagingVars, watcherVars, healingVars, heartVars, coreVars, consensusVars>>

\* The clock moves on with the monitor once every timeout that has ended has
\* woken its caller.
process_monitor_after_timers ==
    /\ \A i \in DOMAIN callers : callers[i].outcome = "waiting" => ~Elapsed(callers[i])
    /\ process_monitor

\* ------------------------------------------------------------ BustCallDaemon
\* A RuntimeWatcher in its PID thread: current_pid, where monitor_pid is
\* ("idle" between calls, "notified" after monitor_pid_changes returned Ok,
\* "dead" after a panic), and the pid get_runtime_pid returned to this call.
Watcher(current_pid, pc, seen) == [current_pid |-> current_pid, pc |-> pc, seen |-> seen]

\* No BustCallDaemon was created.
InitWatchers ==
    /\ watchers = EmptyMap
    /\ daemon_running = FALSE
    /\ fs_threads = EmptyMap
    /\ supervision = "new"

\* The targets enabled with pid_watch in the configuration.
WatchedTargets == {"t1"}

\* BustCallDaemon::new: every enabled target gets a watcher with no pid and is
\* bound to the cache with no pid.
NewBustCallDaemon ==
    /\ watchers = [t \in WatchedTargets |-> Watcher(NoPid, "new", NoPid)]
    /\ daemon_running = FALSE
    /\ fs_threads = [t \in WatchedTargets |-> "new"]
    /\ supervision = "new"
    /\ model_bindings = [t \in WatchedTargets |-> [pid |-> NoPid]]
    /\ diram_dimensions = [t \in WatchedTargets |-> FreshDiram]
    /\ cache_evicons = EmptyMap
    /\ cache_entries = <<>>
    /\ evict_thread = "idle"
    /\ last_call = BindCall(CHOOSE t \in WatchedTargets : TRUE, [pid |-> NoPid])

\* The daemon after new and start_daemon, with its PID threads in their loop
\* and no path of a target on disk (so no filesystem watcher thread).
InitPidDaemon ==
    /\ watchers = [t \in WatchedTargets |-> Watcher(NoPid, "idle", NoPid)]
    /\ daemon_running = TRUE
    /\ fs_threads = [t \in WatchedTargets |-> "none"]
    /\ supervision = "looping"
    /\ model_bindings = [t \in WatchedTargets |-> [pid |-> NoPid]]
    /\ diram_dimensions = [t \in WatchedTargets |-> FreshDiram]
    /\ cache_evicons = EmptyMap
    /\ cache_entries = <<>>
    /\ evict_thread = "idle"
    /\ last_call = BindCall(CHOOSE t \in WatchedTargets : TRUE, [pid |-> NoPid])

\* monitor_pid, lines 207-214: the pid of the runtime is read; when it differs
\* from the watcher's, monitor_pid_changes is called, and its error is the
\* error of monitor_pid, watcher.current_pid keeping the old pid.
monitor_pid(target, current_pid, redis) ==
    /\ watchers[target].pc = "idle"
    /\ daemon_running
    /\ Len(cache_entries) < 2 * MaxPidChanges
    /\ monitor_pid_changes(target, watchers[target].current_pid, current_pid, redis)
    /\ watchers' = [watchers EXCEPT ![target] =
            IF @.current_pid = current_pid THEN @
            ELSE IF BustResult(redis) = "Ok" THEN Watcher(@.current_pid, "notified", current_pid)
            ELSE IF BustResult(redis) = "Err" THEN @
            ELSE Watcher(@.current_pid, "dead", current_pid)]
    /\ UNCHANGED <<daemon_running, fs_threads, supervision>>
    /\ UNCHANGED <<stagingVars, treeVars, healingVars, heartVars, coreVars, consensusVars>>

\* monitor_pid, lines 216-224: watcher.current_pid takes the new pid, then the
\* target is busted again: High when the pid is gone, otherwise Medium
\* (watcher.current_pid, just assigned, is Some).
SecondBustSeverity(current_pid) == IF current_pid = NoPid THEN High ELSE Medium

monitor_pid_bust(target, redis) ==
    /\ watchers[target].pc = "notified"
    /\ bust_cache(target, SecondBustSeverity(watchers[target].seen), redis)
    /\ watchers' = [watchers EXCEPT ![target] =
            Watcher(@.seen, IF BustResult(redis) = "panic" THEN "dead" ELSE "idle", @.seen)]
    /\ UNCHANGED <<daemon_running, fs_threads, supervision>>
    /\ UNCHANGED <<stagingVars, treeVars, healingVars, heartVars, coreVars, consensusVars>>

\* start_daemon of BustCallDaemon: a daemon that is running is left alone;
\* otherwise the flag is set, the threads of every target are spawned (the
\* filesystem watcher only when the path of the target is on disk) and the
\* supervision loop is entered.
BustCallDaemon_start(paths_exist) ==
    /\ supervision = "new"
    /\ IF daemon_running
       THEN /\ supervision' = "returned"
            /\ UNCHANGED <<watchers, daemon_running, fs_threads>>
       ELSE /\ daemon_running' = TRUE
            /\ watchers' = [t \in DOMAIN watchers |-> [watchers[t] EXCEPT !.pc = "idle"]]
            /\ fs_threads' = [t \in DOMAIN fs_threads |->
                                IF paths_exist THEN "watching" ELSE "none"]
            /\ supervision' = "looping"
    /\ NoCacheCall
    /\ UNCHANGED <<stagingVars, treeVars, healingVars, heartVars, coreVars, consensusVars>>

\* The PID thread of a target finds the flag cleared at the head of its loop
\* and ends.
pid_thread_exit(target) ==
    /\ watchers[target].pc = "idle"
    /\ ~daemon_running
    /\ watchers' = [watchers EXCEPT ![target].pc = "ended"]
    /\ NoCacheCall
    /\ UNCHANGED <<daemon_running, fs_threads, supervision>>
    /\ UNCHANGED <<stagingVars, treeVars, healingVars, heartVars, coreVars, consensusVars>>

\* assess_file_change_severity, by the extension of the path ("" for none).
assess_file_change_severity(extension) ==
    CASE extension \in {"rs", "c", "cpp", "h", "hpp", "py", "js", "ts"} -> High
      [] extension \in {"toml", "json", "yaml", "yml", "ini", "conf"} -> Medium
      [] extension \in {"md", "txt", "png", "jpg", "svg"} -> Low
      [] extension \in {"lock", "sum"} -> Critical
      [] extension = "" -> Medium
      [] OTHER -> Low

\* A DebouncedEvent, by its kind and the extension of its path.
DebouncedEvent(kind, extension) == [kind |-> kind, extension |-> extension]

\* watch_filesystem, one turn of its loop: recv returns an event.  A write or
\* a creation busts the target with the severity of the file, an error of the
\* bust being logged; a removal busts it with High, an error of the bust
\* ending the thread.  The loop does not read the flag of the daemon.
watch_filesystem(target, event, redis) ==
    /\ fs_threads[target] = "watching"
    /\ Len(cache_entries) < MaxHeap
    /\ bust_cache(target,
                  IF event.kind = "Remove" THEN High
                  ELSE assess_file_change_severity(event.extension),
                  redis)
    /\ fs_threads' = [fs_threads EXCEPT ![target] =
            IF BustResult(redis) = "panic" THEN "dead"
            ELSE IF BustResult(redis) = "Err" /\ event.kind = "Remove" THEN "ended"
            ELSE "watching"]
    /\ UNCHANGED <<watchers, daemon_running, supervision>>
    /\ UNCHANGED <<stagingVars, treeVars, healingVars, heartVars, coreVars, consensusVars>>

\* supervision_loop, one turn: with the flag cleared the loop ends and
\* start_daemon returns; otherwise perform_health_checks busts with Critical
\* every watched target on the critical path whose process is down, an error
\* of the bust ending the loop, and the loop sleeps.
supervision_loop(down, redis) ==
    /\ supervision = "looping"
    /\ IF ~daemon_running
       THEN /\ supervision' = "returned"
            /\ NoCacheCall
       ELSE IF down = {}
       THEN /\ supervision' = "looping"
            /\ NoCacheCall
       ELSE \E target \in down :
                /\ Len(cache_entries) < MaxHeap
                /\ bust_cache(target, Critical, redis)
                /\ supervision' = IF BustResult(redis) = "Ok" THEN "looping"
                                  ELSE IF BustResult(redis) = "Err" THEN "returned"
                                  ELSE "dead"
    /\ UNCHANGED <<watchers, daemon_running, fs_threads>>
    /\ UNCHANGED <<stagingVars, treeVars, healingVars, heartVars, coreVars, consensusVars>>

\* shutdown: the flag is cleared.
shutdown ==
    /\ daemon_running' = FALSE
    /\ NoCacheCall
    /\ UNCHANGED <<watchers, fs_threads, supervision>>
    /\ UNCHANGED <<stagingVars, treeVars, healingVars, heartVars, coreVars, consensusVars>>

\* ------------------------------------------------------------------- Daemon
\* The task start spawns: where it is, the messages in its shutdown channel
\* (of capacity 1) and whether the Sender of the channel is alive.
DaemonTask(pc, messages, sender) == [pc |-> pc, messages |-> messages, sender |-> sender]

\* A call of start or stop that returned: its result, and for stop whether it
\* had a Sender to signal with.
CoreCall(op, result, sent) == [op |-> op, result |-> result, sent |-> sent]

\* Daemon::new
InitCore ==
    /\ core_status = "Stopped"
    /\ shutdown_tx = FALSE
    /\ daemon_tasks = <<>>
    /\ stop_pc = "idle"
    /\ core_call = CoreCall("new", "Ok", FALSE)
    /\ cache_operations = 0

\* start: Err unless the status is Stopped; otherwise the status is Starting,
\* a channel is made, its Sender kept, and the task spawned.
start ==
    /\ stop_pc = "idle"
    /\ Len(daemon_tasks) < MaxStarts
    /\ IF core_status # "Stopped"
       THEN /\ core_call' = CoreCall("start", "Err", FALSE)
            /\ UNCHANGED <<core_status, shutdown_tx, daemon_tasks>>
       ELSE /\ core_status' = "Starting"
            /\ shutdown_tx' = TRUE
            /\ daemon_tasks' =
                 Append([i \in DOMAIN daemon_tasks |->
                           IF i = Len(daemon_tasks)
                           THEN [daemon_tasks[i] EXCEPT !.sender = FALSE]
                           ELSE daemon_tasks[i]],
                        DaemonTask("spawned", 0, TRUE))
            /\ core_call' = CoreCall("start", "Ok", FALSE)
    /\ UNCHANGED <<stop_pc, cache_operations>>
    /\ UNCHANGED <<cacheVars, stagingVars, treeVars, watcherVars, healingVars, heartVars,
                   consensusVars>>

\* stop, up to the lock of the status: the Sender is taken, a message is sent
\* with try_send and the Sender is dropped.
stop_try_send ==
    /\ stop_pc = "idle"
    /\ stop_pc' = IF shutdown_tx THEN "sent" ELSE "not_sent"
    /\ shutdown_tx' = FALSE
    /\ daemon_tasks' = [i \in DOMAIN daemon_tasks |->
                          IF shutdown_tx /\ i = Len(daemon_tasks)
                          THEN DaemonTask(daemon_tasks[i].pc,
                                          Min(daemon_tasks[i].messages + 1, 1), FALSE)
                          ELSE daemon_tasks[i]]
    /\ UNCHANGED <<core_status, core_call, cache_operations>>
    /\ UNCHANGED <<cacheVars, stagingVars, treeVars, watcherVars, healingVars, heartVars,
                   consensusVars>>

\* stop, from the lock of the status: the status is Stopping, the result Ok.
stop_set_stopping ==
    /\ stop_pc # "idle"
    /\ core_status' = "Stopping"
    /\ stop_pc' = "idle"
    /\ core_call' = CoreCall("stop", "Ok", stop_pc = "sent")
    /\ UNCHANGED <<shutdown_tx, daemon_tasks, cache_operations>>
    /\ UNCHANGED <<cacheVars, stagingVars, treeVars, watcherVars, healingVars, heartVars,
                   consensusVars>>

\* The spawned task, its first step: the status is Running.
daemon_task_run(i) ==
    /\ i \in DOMAIN daemon_tasks
    /\ daemon_tasks[i].pc = "spawned"
    /\ core_status' = "Running"
    /\ daemon_tasks' = [daemon_tasks EXCEPT ![i].pc = "looping"]
    /\ UNCHANGED <<shutdown_tx, stop_pc, core_call, cache_operations>>
    /\ UNCHANGED <<cacheVars, stagingVars, treeVars, watcherVars, healingVars, heartVars,
                   consensusVars>>

\* The spawned task, the sleep arm of its select: perform_cache_operations,
\* which is Ok(()).
daemon_task_sleep(i) ==
    /\ i \in DOMAIN daemon_tasks
    /\ daemon_tasks[i].pc = "looping"
    /\ cache_operations < MaxOperations
    /\ cache_operations' = cache_operations + 1
    /\ UNCHANGED <<core_status, shutdown_tx, daemon_tasks, stop_pc, core_call>>
    /\ UNCHANGED <<cacheVars, stagingVars, treeVars, watcherVars, healingVars, heartVars,
                   consensusVars>>

\* The spawned task, the recv arm of its select: recv returns when a message
\* is in the channel or the Sender was dropped, and the loop is left.
daemon_task_recv(i) ==
    /\ i \in DOMAIN daemon_tasks
    /\ daemon_tasks[i].pc = "looping"
    /\ daemon_tasks[i].messages > 0 \/ ~daemon_tasks[i].sender
    /\ daemon_tasks' = [daemon_tasks EXCEPT ![i] = DaemonTask("broke", 0, @.sender)]
    /\ UNCHANGED <<core_status, shutdown_tx, stop_pc, core_call, cache_operations>>
    /\ UNCHANGED <<cacheVars, stagingVars, treeVars, watcherVars, healingVars, heartVars,
                   consensusVars>>

\* The spawned task, after its loop: the status is Stopped.
daemon_task_exit(i) ==
    /\ i \in DOMAIN daemon_tasks
    /\ daemon_tasks[i].pc = "broke"
    /\ core_status' = "Stopped"
    /\ daemon_tasks' = [daemon_tasks EXCEPT ![i].pc = "done"]
    /\ UNCHANGED <<shutdown_tx, stop_pc, core_call, cache_operations>>
    /\ UNCHANGED <<cacheVars, stagingVars, treeVars, watcherVars, healingVars, heartVars,
                   consensusVars>>

\* --------------------------------------------------- SelfHealingArchitecture
\* SeverityLevel, by the variants determine_recovery_strategy matches on.
SeverityLevel == {"Ok", "Warning", "Danger", "Critical", "Panic"}

\* BustCallError, by the fields the recovery code reads.
BustCallError(severity, message, component) ==
    [severity |-> severity, message |-> message, component |-> component]

\* str::contains: pat occurs in s as a substring.
contains(s, pat) ==
    \E i \in 1..(Len(s) - Len(pat) + 1) : SubSeq(s, i, i + Len(pat) - 1) = pat

\* RecoveryStrategy
SoftRecovery(retry_count, backoff_ms) ==
    [kind |-> "SoftRecovery", retry_count |-> retry_count, backoff_ms |-> backoff_ms]

HardRecovery(force_rebuild, isolate) ==
    [kind |-> "HardRecovery", force_rebuild |-> force_rebuild,
     isolate_component |-> isolate]

EmergencyRecovery(system_restart, escalate_to_supervisor) ==
    [kind |-> "EmergencyRecovery", system_restart |-> system_restart,
     escalate_to_supervisor |-> escalate_to_supervisor]

ConstitutionalEmergency(trigger_lockdown, notify_board) ==
    [kind |-> "ConstitutionalEmergency", trigger_lockdown |-> trigger_lockdown,
     notify_board |-> notify_board]

\* RecoveryResult
Success(strategy_used, recovery_time_ms, health_restored) ==
    [kind |-> "Success", strategy_used |-> strategy_used,
     recovery_time_ms |-> recovery_time_ms, health_restored |-> health_restored]

PartialRecovery(remaining_issues, next_strategy) ==
    [kind |-> "PartialRecovery", remaining_issues |-> remaining_issues,
     next_strategy |-> next_strategy]

Failed(error, escalation_required) ==
    [kind |-> "Failed", error |-> error, escalation_required |-> escalation_required]

ManualIntervention(reason, emergency_contacts) ==
    [kind |-> "ManualIntervention", reason |-> reason,
     emergency_contacts |-> emergency_contacts]

\* SelfHealingArchitecture::new: the strategies registered per component.
recovery_strategies ==
    [c \in {"node", "python", "c", "gosilang"} |->
        CASE c = "node" -> SoftRecovery(3, 1000)
          [] c = "python" -> SoftRecovery(3, 1500)
          [] c = "c" -> HardRecovery(TRUE, FALSE)
          [] c = "gosilang" -> HardRecovery(FALSE, TRUE)]

\* initialize_constitution_validator: rule id -> description.
compliance_rules ==
    [r \in {"AI_TRAINING_PROTECTION", "POLYCORE_V2_CERTIFICATION"} |->
        IF r = "AI_TRAINING_PROTECTION"
        THEN "Prevent unauthorized AI model training on cache data"
        ELSE "Maintain PolyCore v2 certification standards"]

\* initialize_emergency_protocols, and the three fields the recovery writes.
EmergencyProtocols(lockdown_enabled, board_notification_active, level) ==
    [lockdown_enabled |-> lockdown_enabled,
     board_notification_active |-> board_notification_active,
     system_isolation_level |-> level]

\* A call of attempt_recovery: its error, the strategy it selected ("none"
\* when it returned before selecting), the operations it ran on the component
\* or the system, in order, and what it returned.
RecoveryCall(error, strategy, operations, result) ==
    [error |-> error, strategy |-> strategy, operations |-> operations,
     result |-> result]

NoRecoveryStrategy == [kind |-> "none"]

InitHealing ==
    /\ recovery_history = <<>>
    /\ violation_history = <<>>
    /\ emergency_protocols = EmergencyProtocols(FALSE, FALSE, "None")
    /\ recovery_call = RecoveryCall(BustCallError("Ok", "", ""), NoRecoveryStrategy,
                                    <<>>, [kind |-> "none"])

is_constitutional_violation(error) ==
    \/ contains(error.message, "constitutional")
    \/ contains(error.message, "compliance")
    \/ contains(error.component, "constitution")

\* check_rule_violation finding no rule violated.
check_rule_violation_never(rule_id, error) == FALSE

\* check_rule_violation: the rule id occurs in the message or the component.

check_rule_violation(rule_id, error) ==
    contains(error.message, rule_id) \/ contains(error.component, rule_id)

\* validate_constitutional_compliance: the rules the loop can stop at.  The
\* rules are visited in the order of a HashMap, which is any order, so the
\* violation returned is that of any rule the error violates.
ViolatedRules(error) ==
    {rule_id \in DOMAIN compliance_rules : check_rule_violation(rule_id, error)}

ComplianceViolation(rule_id, error) ==
    [rule_id |-> rule_id, component |-> error.component,
     details |-> "Violation: " \o compliance_rules[rule_id] \o " - " \o error.message,
     remediation_status |-> "Pending"]

\* handle_constitutional_violation: what it returns.
handle_constitutional_violation(violation) ==
    ManualIntervention("Constitutional violation: " \o violation.details,
                       <<"constitutional.compliance@obinexus.com", "legal@obinexus.com">>)

DefaultStrategy == SoftRecovery(3, 1000)

\* The selection with every severity answered from the table of components.
determine_recovery_strategy_by_component(error) ==
    IF is_constitutional_violation(error) THEN ConstitutionalEmergency(TRUE, TRUE)
    ELSE IF error.component \in DOMAIN recovery_strategies
    THEN recovery_strategies[error.component]
    ELSE DefaultStrategy

determine_recovery_strategy(error) ==
    IF is_constitutional_violation(error) THEN ConstitutionalEmergency(TRUE, TRUE)
    ELSE CASE error.severity \in {"Ok", "Warning"} ->
                IF error.component \in DOMAIN recovery_strategies
                THEN recovery_strategies[error.component]
                ELSE DefaultStrategy
           [] error.severity = "Danger" -> HardRecovery(TRUE, FALSE)
           [] error.severity = "Critical" -> EmergencyRecovery(FALSE, TRUE)
           [] error.severity = "Panic" -> EmergencyRecovery(TRUE, TRUE)

\* The results of refresh_component_cache, force_rebuild_component and
\* initiate_controlled_restart, all Result<(), String>.  Their bodies in the
\* source stand in for the real operation ("would implement ...") and return
\* Ok; the callers handle both variants, and the model draws both.
Results == {"Ok", "Err"}

\* The String an Err of these operations carries.
ErrText == "operation failed"

\* validate_component_health returns true.
validate_component_health(component) == TRUE

\* An operation a recovery ran, with the result it returned ("done" for the
\* operations that return nothing).
Op(op, result) == [op |-> op, result |-> result]

\* What an execute_* function did: the result it returned, the operations it
\* ran in order, and emergency_protocols as it left it.
Run(result, operations, protocols) ==
    [result |-> result, operations |-> operations, protocols |-> protocols]

\* A delay that grows by backoff_ms with every try.
backoff_delay_linear(backoff_ms, attempt) == backoff_ms * attempt

\* The delay of a try: backoff_ms * 2^(attempt - 1).
backoff_delay(backoff_ms, attempt) == backoff_ms * (2 ^ (attempt - 1))

\* The sleep of a try and its cache refresh, as operations.
Try(backoff_ms, attempt, io) ==
    <<Op("sleep", ToString(backoff_delay(backoff_ms, attempt))), Op("refresh", io[attempt])>>

\* The operations of the tries 1..attempts, in order.
RECURSIVE Tries(_, _, _)
Tries(backoff_ms, attempts, io) ==
    IF attempts = 0 THEN <<>>
    ELSE Tries(backoff_ms, attempts - 1, io) \o Try(backoff_ms, attempts, io)

\* execute_soft_recovery: up to retry_count tries, each a backoff and a cache
\* refresh; the first refresh that is Ok, with the health validated, is a
\* Success.  io[a] is the result of the refresh of try a.
execute_soft_recovery(error, retry_count, backoff_ms, io, protocols) ==
    LET good == {a \in 1..retry_count :
                    io[a] = "Ok" /\ validate_component_health(error.component)}
    IN  IF good # {}
        THEN LET attempt == CHOOSE a \in good : \A b \in good : a <= b
             IN  Run(Success(SoftRecovery(retry_count, backoff_ms),
                             backoff_delay(backoff_ms, attempt), TRUE),
                     Tries(backoff_ms, attempt, io), protocols)
        ELSE Run(PartialRecovery(<<"Soft recovery failed for " \o error.component>>,
                                 HardRecovery(TRUE, FALSE)),
                 Tries(backoff_ms, retry_count, io), protocols)

\* execute_hard_recovery, lines 268-273: the arm of a rebuild that returned Err.
RebuildFailed(error) ==
    Failed("Hard recovery rebuild failed: " \o ErrText, TRUE)

\* execute_hard_recovery: the component is isolated when asked, and rebuilt
\* when asked; io[1] is the result of the rebuild.
execute_hard_recovery(error, force_rebuild, isolate, io, protocols) ==
    LET isolated == IF isolate
                    THEN [protocols EXCEPT !.system_isolation_level = "ComponentLevel"]
                    ELSE protocols
        ops == IF isolate THEN <<Op("isolate", "done")>> ELSE <<>>
        incomplete == PartialRecovery(<<"Hard recovery incomplete for " \o error.component>>,
                                      EmergencyRecovery(TRUE, TRUE))
    IN  IF ~force_rebuild THEN Run(incomplete, ops, isolated)
        ELSE IF io[1] = "Err" THEN Run(RebuildFailed(error), Append(ops, Op("rebuild", io[1])), isolated)
        ELSE IF validate_component_health(error.component)
        THEN Run(Success(HardRecovery(force_rebuild, isolate), 5000, TRUE),
                 Append(ops, Op("rebuild", io[1])), isolated)
        ELSE Run(incomplete, Append(ops, Op("rebuild", io[1])), isolated)

\* execute_emergency_recovery: the system is isolated, the supervisor told
\* when asked, and the system restarted when asked; io[1] is the result of the
\* restart.  Without a restart the result asks for manual intervention.
execute_emergency_recovery(error, system_restart, escalate_to_supervisor, io, protocols) ==
    LET isolated == [protocols EXCEPT !.system_isolation_level = "SystemLevel"]
        ops == IF escalate_to_supervisor THEN <<Op("escalate", "done")>> ELSE <<>>
    IN  IF system_restart
        THEN IF io[1] = "Ok"
             THEN Run(Success(EmergencyRecovery(system_restart, escalate_to_supervisor),
                              10000, TRUE),
                      Append(ops, Op("restart", io[1])), isolated)
             ELSE Run(Failed("Emergency restart failed: " \o ErrText, TRUE),
                      Append(ops, Op("restart", io[1])), isolated)
        ELSE Run(ManualIntervention("Emergency recovery requires manual intervention",
                                    <<"emergency@obinexus.com", "uche.king@obinexus.com">>),
                 ops, isolated)

\* execute_constitutional_emergency: lockdown and board notification when
\* asked; the result always asks for manual intervention.
execute_constitutional_emergency(error, trigger_lockdown, notify_board, protocols) ==
    LET locked == IF trigger_lockdown
                  THEN [protocols EXCEPT !.lockdown_enabled = TRUE,
                                         !.system_isolation_level = "ConstitutionalEmergency"]
                  ELSE protocols
        told == IF notify_board
                THEN [locked EXCEPT !.board_notification_active = TRUE]
                ELSE locked
    IN  Run(ManualIntervention(
                "Constitutional compliance violation - Board intervention required",
                <<"constitutional.board@obinexus.com", "legal@obinexus.com",
                  "uche.king@obinexus.com">>),
            IF notify_board THEN <<Op("notify_board", "done")>> ELSE <<>>, told)

\* attempt_recovery, lines 194-207: the strategy is executed.
execute(strategy, error, io, protocols) ==
    CASE strategy.kind = "SoftRecovery" ->
            execute_soft_recovery(error, strategy.retry_count, strategy.backoff_ms,
                                  io, protocols)
      [] strategy.kind = "HardRecovery" ->
            execute_hard_recovery(error, strategy.force_rebuild,
                                  strategy.isolate_component, io, protocols)
      [] strategy.kind = "EmergencyRecovery" ->
            execute_emergency_recovery(error, strategy.system_restart,
                                       strategy.escalate_to_supervisor, io, protocols)
      [] strategy.kind = "ConstitutionalEmergency" ->
            execute_constitutional_emergency(error, strategy.trigger_lockdown,
                                             strategy.notify_board, protocols)

RecoveryAttempt(component, strategy, result, constitutional_impact) ==
    [component |-> component, strategy |-> strategy, result |-> result,
     constitutional_impact |-> constitutional_impact]

\* The history is cut by its HistoryDrain oldest entries once it holds more
\* than HistoryLimit.
HistoryLimit == 1000
HistoryDrain == 100

\* record_recovery_attempt cutting the newest entries of a full history.
record_recovery_attempt_newest_cut(history, error, strategy, result) ==
    LET pushed == Append(history,
                         RecoveryAttempt(error.component, strategy, result,
                                         is_constitutional_violation(error)))
    IN  IF Len(pushed) > HistoryLimit
        THEN SubSeq(pushed, 1, Len(pushed) - HistoryDrain)
        ELSE pushed

\* record_recovery_attempt: the attempt is pushed, then the history is cut.
record_recovery_attempt(history, error, strategy, result) ==
    LET pushed == Append(history,
                         RecoveryAttempt(error.component, strategy, result,
                                         is_constitutional_violation(error)))
    IN  IF Len(pushed) > HistoryLimit
        THEN SubSeq(pushed, HistoryDrain + 1, Len(pushed))
        ELSE pushed

\* attempt_recovery: an error that violates a compliance rule is answered by
\* handle_constitutional_violation, which pushes the violation and returns;
\* any other error has its strategy selected, executed and recorded.
attempt_recovery_call(error, io) ==
    /\ IF ViolatedRules(error) # {}
       THEN \E rule_id \in ViolatedRules(error) :
                LET violation == ComplianceViolation(rule_id, error)
                IN  /\ violation_history' = Append(violation_history, violation)
                    /\ recovery_call' = RecoveryCall(error, NoRecoveryStrategy, <<>>,
                                            handle_constitutional_violation(violation))
                    /\ UNCHANGED <<recovery_history, emergency_protocols>>
       ELSE LET strategy == determine_recovery_strategy(error)
                run == execute(strategy, error, io, emergency_protocols)
            IN  /\ emergency_protocols' = run.protocols
                /\ recovery_history' = record_recovery_attempt(recovery_history, error,
                                                               strategy, run.result)
                /\ recovery_call' = RecoveryCall(error, strategy, run.operations,
                                                 run.result)
                /\ UNCHANGED violation_history
    /\ UNCHANGED <<cacheVars, stagingVars, treeVars, watcherVars, heartVars, coreVars, consensusVars>>

\* attempt_recovery on a recovery system that has recovered few errors so far.
attempt_recovery(error, io) ==
    /\ Len(recovery_history) + Len(violation_history) < MaxAttempts
    /\ attempt_recovery_call(error, io)

\* attempt_recovery on a recovery system whose history is about to be full.
attempt_recovery_history_full(error, io) ==
    /\ Len(recovery_history) > HistoryLimit - MaxAttempts
    /\ attempt_recovery_call(error, io)

\* attempt_recovery from the execution of its strategy (lines 194-207), for a
\* Soft strategy of any retry count: the strategy is executed and the attempt
\* recorded.
attempt_soft_recovery(error, retry_count, backoff_ms, io) ==
    /\ Len(recovery_history) + Len(violation_history) < MaxAttempts
    /\ LET strategy == SoftRecovery(retry_count, backoff_ms)
           run == execute(strategy, error, io, emergency_protocols)
       IN  /\ emergency_protocols' = run.protocols
           /\ recovery_history' = record_recovery_attempt(recovery_history, error,
                                                          strategy, run.result)
           /\ recovery_call' = RecoveryCall(error, strategy, run.operations, run.result)
    /\ UNCHANGED violation_history
    /\ UNCHANGED <<cacheVars, stagingVars, treeVars, watcherVars, heartVars, coreVars, consensusVars>>

\* ------------------------------------------------------ inputs of the cache
Bindings == [pid : {NoPid}]

\* Bindings of the bind runs: a target without a process and with one.
RebindBindings == [pid : Pids]

\* Entries of the bust runs: two keys, bound to either target.
BustCacheIds == {"e1", "e2"}

BustEvicons ==
    [model_binding : TargetNames, last_access : {1}, access_frequency : {0},
     integrity_score : {100}, dependency_depth : {0}]

\* Entries of the eviction runs: keys that are target names and keys that are not.
EvictCacheIds == {"t1", "t2", "e1"}

EvictEvicons ==
    [model_binding : TargetNames, last_access : {1}, access_frequency : {0, 10},
     integrity_score : {100}, dependency_depth : {0}]

\* ModelWeights of the evict command (src/src/main.rs:248-253), in tenths.
MainWeights == [language_priority |-> 7, dependency_impact |-> 8, critical_path |-> TRUE]

Strategies ==
    {[kind |-> "ModelAware", weights |-> MainWeights],
     [kind |-> "LRU", weights |-> NoWeights],
     [kind |-> "MRU", weights |-> NoWeights]}

\* Every EvictionStrategy.
AllStrategies ==
    Strategies \cup {[kind |-> "LFU", weights |-> NoWeights],
                     [kind |-> "FIFO", weights |-> NoWeights]}

\* Every severity with a publish that works, and one severity with each failure.
BustCases ==
    {<<s, "published">> : s \in CacheBustSeverity}
        \cup {<<Medium, r>> : r \in RedisOutcomes}

\* ---------------------------------------- inputs of staging and of the tree
TaskIds == {"a", "b"}

Priorities == {1, 2}

\* Seconds of timeout of a submitted task or delegation.
TimeoutSeconds == 1

\* Task "b" requires a proof of work, task "a" does not.
Tasks ==
    {task \in [task_id : TaskIds, target_node : {RootBinding},
               priority : Priorities, timeout_seconds : {TimeoutSeconds},
               proof_required : BOOLEAN, challenge : {FALSE}, seq : {0}] :
        task.proof_required = (task.task_id = "b")}

\* A submission publishes its bust or finds the connection refused.
SubmitOutcomes == {"published", "connection_refused"}

\* The root, the first delegate, and an id that names no node.
Delegators == {RootNodeId, "delegate-1", "nobody"}

DelegationSpecs == [execution_timeout : {TimeoutSeconds}]

\* ------------------------------------------------- inputs of the recovery
\* Components: two registered for a Hard strategy, one not registered, one
\* whose name is taken for a constitutional violation.
Components == {"c", "gosilang", "test_component", "constitution_validator"}

Messages == {"Test cache warning", "compliance drift", "AI_TRAINING_PROTECTION tripped"}

Errors == {BustCallError(s, m, c) : s \in SeverityLevel, m \in Messages, c \in Components}

\* The results of the operations a call runs, in order: the refresh of each
\* try of a soft recovery (none is run after the first Ok), the rebuild of a
\* hard recovery, the restart of an emergency recovery.
IoResults == {<<"Ok", "Ok", "Ok">>, <<"Err", "Ok", "Ok">>, <<"Err", "Err", "Ok">>,
              <<"Err", "Err", "Err">>}

\* ----------------------------------------------- inputs of the heartbeats
\* heartbeat_interval_ms of 1000 (the default), of 6000 and of 11000.
HeartbeatIntervals == {1, 6, 11}

\* --node-id of a delegate, as spawn_delegate_tree numbers them.
ConsensusNodeIds == {"0"}

\* severity of a FaultReport, a u8.
ReportSeverities == {1, 3}

ConsensusMessages ==
    {Heartbeat(n) : n \in ConsensusNodeIds}
        \cup {FaultReport(n, f, s) : n \in {"0"}, f \in ConsensusNodeIds,
                                     s \in ReportSeverities}

\* The task the heartbeat runs are given.
HeartbeatTask ==
    [task_id |-> "a", target_node |-> "t1", priority |-> 1,
     timeout_seconds |-> TimeoutSeconds, proof_required |-> FALSE,
     challenge |-> FALSE, seq |-> 0]

Init ==
    /\ InitCache /\ InitStaging /\ InitTree /\ InitWatchers /\ InitHealing /\ InitHeart
    /\ InitCore /\ InitConsensus

\* bind, access, insert and bust, every severity and every Redis outcome.
NextBust ==
    \/ \E t \in TargetNames, b \in Bindings : BindModel(t, b)
    \/ \E t \in TargetNames, c \in BustCases : BustCache(t, c[1], c[2])
    \/ \E k \in BustCacheIds, e \in BustEvicons : InsertEvicon(k, e)
    \/ \E t \in TargetNames : AccessVector(t, Hot)

SpecBust == Init /\ [][NextBust]_vars

\* bind, access, insert, bust and evict.
NextEvict ==
    \/ \E t \in TargetNames, b \in Bindings : BindModel(t, b)
    \/ \E t \in TargetNames : BustCache(t, Medium, "published")
    \/ \E st \in Strategies : cache_evict(st)
    \/ \E k \in EvictCacheIds, e \in EvictEvicons : InsertEvicon(k, e)
    \/ \E t \in TargetNames, st \in {Hot, Warm} : AccessVector(t, st)

SpecEvict == Init /\ [][NextEvict]_vars

\* Evictions of every strategy on a cache of bound and busted targets.
NextEvictAll ==
    \/ \E t \in TargetNames, b \in Bindings : BindModel(t, b)
    \/ \E t \in TargetNames : BustCache(t, Medium, "published")
    \/ \E st \in AllStrategies : cache_evict(st)
    \/ \E k \in EvictCacheIds, e \in EvictEvicons : InsertEvicon(k, e)

SpecEvictAll == Init /\ [][NextEvictAll]_vars

\* The staging daemon: submissions, the engine, its monitoring and timeouts.
NextStaging ==
    \/ start_daemon
    \/ \E task \in Tasks, redis \in SubmitOutcomes : delegate_task(task, redis)
    \/ \E spawn \in SpawnOutcomes : task_delegation_engine(spawn)
    \/ \E task_id \in TaskIds : ProcessExits(task_id)
    \/ monitor_task_execution
    \/ \E redis \in RedisOutcomes : terminate_task(redis)

SpecStaging == Init /\ [][NextStaging]_vars

\* The engine takes its turns: it pops when it can, and its monitoring sleeps,
\* sees the exit or reaches the timeout.
FairSpecStaging ==
    /\ SpecStaging
    /\ WF_vars(\E spawn \in SpawnOutcomes : task_delegation_engine(spawn))
    /\ WF_vars(monitor_task_execution)
    /\ WF_vars(\E redis \in RedisOutcomes : terminate_task(redis))

\* The delegation tree: requests, the processor, exits and the monitor.
NextTree ==
    \/ \E d \in Delegators, s \in DelegationSpecs : submit_delegation(d, s)
    \/ \E spawn \in SpawnOutcomes, redis \in RedisOutcomes :
            delegation_request_processor(spawn, redis)
    \/ \E id \in DOMAIN active_processes, status \in ExitStatuses :
            DelegateExits(id, status)
    \/ process_monitor

SpecTree == Init /\ [][NextTree]_vars

\* The delegation tree with execute_delegation taken write by write, the
\* monitor running between the writes.
NextTreeSteps ==
    \/ \E d \in Delegators, s \in DelegationSpecs : submit_delegation(d, s)
    \/ \E spawn \in SpawnOutcomes : execute_delegation_insert(spawn)
    \/ execute_delegation_update_parent
    \/ \E redis \in RedisOutcomes : execute_delegation_finish(redis)
    \/ \E id \in DOMAIN active_processes, status \in ExitStatuses :
            DelegateExits(id, status)
    \/ process_monitor

SpecTreeSteps == Init /\ [][NextTreeSteps]_vars

\* The monitor ticks and the processor receives, for as long as they can.
FairSpecTree ==
    SpecTree /\ WF_vars(process_monitor)
             /\ WF_vars(\E spawn \in SpawnOutcomes, redis \in RedisOutcomes :
                            delegation_request_processor(spawn, redis))

\* delegate_task from the call to the return, with the processor and the
\* clock; the processor fails through the cache bust of execute_delegation.
NextCall ==
    \/ \E s \in DelegationSpecs : delegate_task_send(RootNodeId, s)
    \/ \E redis \in RedisOutcomes : delegation_request_processor("spawned", redis)
    \/ \E i \in 1..MaxRequests : delegate_task_return(i)
    \/ process_monitor_after_timers

SpecCall == Init /\ [][NextCall]_vars

\* The callers are polled and the clock moves; the processor, which may be
\* stopped or slow, is given nothing.
FairSpecCall ==
    SpecCall /\ WF_vars(process_monitor_after_timers)
             /\ WF_vars(\E i \in 1..MaxRequests : delegate_task_return(i))

\* Pids get_runtime_pid can return for the runtime of a target.
RuntimePids == {NoPid, 4321, 4322}

\* The PID threads of the watcher daemon.
NextPid ==
    \/ \E t \in WatchedTargets, pid \in RuntimePids, redis \in RedisOutcomes :
            monitor_pid(t, pid, redis)
    \/ \E t \in WatchedTargets, redis \in RedisOutcomes : monitor_pid_bust(t, redis)

\* The watcher daemon created, nothing else started.
InitPid ==
    /\ InitPidDaemon /\ InitStaging /\ InitTree /\ InitHealing /\ InitHeart
    /\ InitCore /\ InitConsensus

SpecPid == InitPid /\ [][NextPid]_vars

\* Events of the filesystem watcher: source files, a lock file, docs, a file of
\* an extension the watcher does not list and a file without extension,
\* written, created or removed.
FsEvents == {DebouncedEvent("Write", "rs"), DebouncedEvent("Create", "lock"),
             DebouncedEvent("Remove", "md"), DebouncedEvent("Remove", "rs"),
             DebouncedEvent("Write", "md"), DebouncedEvent("Write", "xyz"),
             DebouncedEvent("Create", "")}

\* The watcher daemon from new to shutdown.
NextShutdown ==
    \/ \E paths_exist \in BOOLEAN : BustCallDaemon_start(paths_exist)
    \/ \E t \in WatchedTargets, pid \in Pids : monitor_pid(t, pid, "published")
    \/ \E t \in WatchedTargets : monitor_pid_bust(t, "published")
    \/ \E t \in WatchedTargets : pid_thread_exit(t)
    \/ \E t \in WatchedTargets, event \in FsEvents, redis \in RedisOutcomes :
            watch_filesystem(t, event, redis)
    \/ \E down \in SUBSET WatchedTargets, redis \in RedisOutcomes :
            supervision_loop(down, redis)
    \/ shutdown

InitShutdown ==
    /\ NewBustCallDaemon /\ InitStaging /\ InitTree /\ InitHealing /\ InitHeart
    /\ InitCore /\ InitConsensus

SpecShutdown == InitShutdown /\ [][NextShutdown]_vars

\* The threads and the supervision loop take their turns; events of the
\* filesystem and calls of shutdown come when they come.
FairSpecShutdown ==
    /\ SpecShutdown
    /\ \A t \in WatchedTargets :
            /\ WF_vars(\E pid \in Pids : monitor_pid(t, pid, "published"))
            /\ WF_vars(monitor_pid_bust(t, "published"))
            /\ WF_vars(pid_thread_exit(t))
    /\ WF_vars(\E down \in SUBSET WatchedTargets, redis \in RedisOutcomes :
                    supervision_loop(down, redis))

\* The consensus coordinator of the staging daemon, with votes recorded.
NextConsensus ==
    \/ start_daemon
    \/ \E task_id \in TaskIds, vote \in ByzantineVote : RecordVote(task_id, vote)
    \/ byzantine_consensus_coordinator

SpecConsensus == Init /\ [][NextConsensus]_vars

\* The core Daemon: its owner calls start and stop, its tasks run beside.
NextCore ==
    \/ start
    \/ stop_try_send
    \/ stop_set_stopping
    \/ \E i \in 1..MaxStarts : daemon_task_run(i)
    \/ \E i \in 1..MaxStarts : daemon_task_sleep(i)
    \/ \E i \in 1..MaxStarts : daemon_task_recv(i)
    \/ \E i \in 1..MaxStarts : daemon_task_exit(i)

SpecCore == Init /\ [][NextCore]_vars

\* A call of stop that began returns, and every spawned task is scheduled;
\* in its select the recv arm is taken when it stays ready.
FairSpecCore ==
    /\ SpecCore
    /\ WF_vars(stop_set_stopping)
    /\ \A i \in 1..MaxStarts :
            /\ WF_vars(daemon_task_run(i))
            /\ WF_vars(daemon_task_recv(i))
            /\ WF_vars(daemon_task_exit(i))

\* bind and bind again, over vectors in every state: Cold after a bind, Hot or
\* Warm after an access, Stale after a bust.
NextBind ==
    \/ \E t \in TargetNames, b \in RebindBindings : BindModel(t, b)
    \/ \E t \in TargetNames, st \in {Hot, Warm} : AccessVector(t, st)
    \/ \E t \in TargetNames, severity \in {Low, Critical} :
            BustCache(t, severity, "published")

SpecBind == Init /\ [][NextBind]_vars

\* Soft strategies: the retry counts up to MaxRetries, the two backoffs of
\* initialize_recovery_strategies, every result of every refresh.
RetryCounts == 0..MaxRetries
Backoffs == {1000, 1500}
SoftIoResults == [1..MaxRetries -> Results]
SoftErrors == {BustCallError("Warning", "Test cache warning", "test_component")}

\* Soft recoveries of every retry count.
NextSoft ==
    \/ \E error \in SoftErrors, retry_count \in RetryCounts, backoff_ms \in Backoffs,
          io \in SoftIoResults : attempt_soft_recovery(error, retry_count, backoff_ms, io)

SpecSoft == Init /\ [][NextSoft]_vars

\* Errors of every severity that violate no rule.
HistoryErrors == {BustCallError(s, "Test cache warning", c) : s \in SeverityLevel,
                                                              c \in {"c", "gosilang"}}

\* The history after n attempts on warnings of two components in turn, all
\* of whose operations went well; these leave the protocols as they were.
EarlierError(i) ==
    BustCallError("Warning", "Test cache warning", IF i % 2 = 0 THEN "c" ELSE "gosilang")
EarlierAttempts(n) ==
    [i \in 1..n |->
        LET error == EarlierError(i)
            strategy == determine_recovery_strategy(error)
        IN  RecoveryAttempt(error.component, strategy,
                            execute(strategy, error, [a \in 1..MaxRetries |-> "Ok"],
                                    EmergencyProtocols(FALSE, FALSE, "None")).result,
                            is_constitutional_violation(error))]

\* A recovery system that has recorded all but a few of the attempts its
\* history holds.
InitHistory ==
    /\ InitCache /\ InitStaging /\ InitTree /\ InitWatchers /\ InitHeart /\ InitCore
    /\ InitConsensus
    /\ recovery_history = EarlierAttempts(HistoryLimit - MaxAttempts + 1)
    /\ violation_history = <<>>
    /\ emergency_protocols = EmergencyProtocols(FALSE, FALSE, "None")
    /\ recovery_call = RecoveryCall(BustCallError("Ok", "", ""), NoRecoveryStrategy,
                                    <<>>, [kind |-> "none"])

\* Recoveries that fill the history and have it cut.
NextHistory ==
    \/ \E error \in HistoryErrors, io \in IoResults : attempt_recovery_history_full(error, io)

SpecHistory == InitHistory /\ [][NextHistory]_vars

\* The recovery: any error, any results of its operations.
NextHealing ==
    \/ \E error \in Errors, io \in IoResults : attempt_recovery(error, io)

SpecHealing == Init /\ [][NextHealing]_vars

\* A daemon created with any of the heartbeat intervals.
InitHeartbeat ==
    /\ InitCache /\ InitStaging /\ InitTree /\ InitWatchers /\ InitHealing /\ InitCore /\ InitConsensus
    /\ config \in {FaultTorrentConfig(i) : i \in HeartbeatIntervals}
    /\ clock = 0
    /\ heartbeat_ticks = 0
    /\ node_registry = EmptyMap

\* The heartbeats of the staging daemon and of the consensus network.
NextHeartbeat ==
    \/ start_daemon
    \/ delegate_task(HeartbeatTask, "published")
    \/ task_delegation_engine("spawned")
    \/ heartbeat_monitor
    \/ \E n \in ConsensusNodeIds : RegisterConsensusNode(n)
    \/ \E message \in ConsensusMessages : handle_consensus_message(message)

SpecHeartbeat == InitHeartbeat /\ [][NextHeartbeat]_vars

\* ================================================================ claims
\* A step that is a call of bust_cache.
BustStep == last_call'.op = "bust_cache"

\* The priority score the specification gives each severity.
SpecScore(severity) ==
    CASE severity = Low -> 1
      [] severity = Medium -> 5
      [] severity = High -> 10
      [] severity = Critical -> 50

\* C1: after bust(T, s) on a bound target T the vector of T is Stale and its
\* hot_path_score is exactly half of what it was, whatever its state was.
C1_BustStaleAndHalved ==
    [][(BustStep /\ last_call'.target \in DOMAIN diram_dimensions) =>
        LET t == last_call'.target
        IN  /\ diram_dimensions'[t].cache_state = Stale
            /\ 2 * diram_dimensions'[t].hot_path_score
                    = diram_dimensions[t].hot_path_score]_vars

\* A Hot target with score 1.0 has just been busted: Stale, score 0.5.
C1_Witness ==
    /\ last_call.op = "bust_cache"
    /\ last_call.target \in DOMAIN diram_dimensions
    /\ diram_dimensions[last_call.target] =
            [hot_path_score |-> ScoreOne \div 2, cache_state |-> Stale]

\* C2: after bust(T, s) no entry bound to T remains, however many there were,
\* and every entry bound to another target is still there, unchanged.
C2_BustRemovesEntriesOfTarget ==
    [][BustStep =>
        LET t == last_call'.target
        IN  /\ \A k \in DOMAIN cache_evicons' : cache_evicons'[k].model_binding # t
            /\ \A k \in DOMAIN cache_evicons :
                    cache_evicons[k].model_binding # t =>
                        /\ k \in DOMAIN cache_evicons'
                        /\ cache_evicons'[k] = cache_evicons[k]]_vars

\* A bust has just removed an entry of its target and left one of another.
C2_Witness ==
    /\ last_call.op = "bust_cache"
    /\ last_call.removed # {}
    /\ \E k \in DOMAIN cache_evicons :
            cache_evicons[k].model_binding # last_call.target

\* C3: each bust(T, s) on a bound target enqueues exactly one RebuildRequest
\* for T, with priority score Low=1, Medium=5, High=10, Critical=50.
C3_BustEnqueuesOneRebuild ==
    [][(BustStep /\ last_call'.target \in DOMAIN diram_dimensions) =>
        cache_entries' =
            Append(cache_entries,
                   [cache_id |-> last_call'.target,
                    priority_score |-> SpecScore(last_call'.severity)])]_vars

\* A Critical bust of a bound target has just pushed its request with score 50.
C3_Witness ==
    /\ last_call.op = "bust_cache"
    /\ last_call.severity = Critical
    /\ last_call.target \in DOMAIN diram_dimensions
    /\ cache_entries # <<>>
    /\ cache_entries[Len(cache_entries)] =
            [cache_id |-> last_call.target, priority_score |-> 50]

\* C4 as claimed: busting a target that is not bound returns success and leaves
\* the vectors, the entries, the bindings and the rebuild queue as they were.
C4_UnknownBustIsNoOp ==
    [][(BustStep /\ last_call'.target \notin DOMAIN model_bindings) =>
        /\ last_call'.result = "Ok"
        /\ UNCHANGED <<diram_dimensions, cache_evicons, model_bindings,
                       cache_entries>>]_vars

\* C4 as amended: busting a target that is not bound leaves the vectors and the
\* bindings as they were and removes only the entries bound to that name, but
\* it still enqueues one RebuildRequest for the name with the severity's score.
C4_UnknownBustStillEnqueues ==
    [][(BustStep /\ last_call'.target \notin DOMAIN model_bindings) =>
        LET t == last_call'.target
        IN  /\ UNCHANGED <<diram_dimensions, model_bindings>>
            /\ DOMAIN cache_evicons' =
                    {k \in DOMAIN cache_evicons : cache_evicons[k].model_binding # t}
            /\ \A k \in DOMAIN cache_evicons' : cache_evicons'[k] = cache_evicons[k]
            /\ cache_entries' =
                    Append(cache_entries,
                           [cache_id |-> t,
                            priority_score |-> SpecScore(last_call'.severity)])]_vars

\* An unbound target has just been busted successfully: its request is queued.
C4_Witness ==
    /\ last_call.op = "bust_cache"
    /\ last_call.result = "Ok"
    /\ last_call.target \notin DOMAIN model_bindings
    /\ cache_entries # <<>>
    /\ cache_entries[Len(cache_entries)].cache_id = last_call.target

\* C5: bust on a bound target returns success even when the notification
\* channel is unreachable or the publish fails.
C5_BustNeverFails ==
    (last_call.op = "bust_cache" /\ last_call.target \in DOMAIN model_bindings)
        => last_call.result = "Ok"

\* A step that is a call of cache_evict with the ModelAware strategy.
ModelAwareStep ==
    /\ last_call'.op = "cache_evict"
    /\ last_call'.strategy.kind = "ModelAware"

\* The entries bound to a target whose vector is in one of the states.
BoundToVectorIn(states) ==
    {k \in DOMAIN cache_evicons :
        LET t == cache_evicons[k].model_binding
        IN  t \in DOMAIN diram_dimensions
                /\ diram_dimensions[t].cache_state \in states}

\* C6: evict(ModelAware) never selects, removes or returns an entry whose
\* vector (that of the target it is bound to) is Hot or Warm.
C6_EvictSparesHotAndWarm ==
    [][ModelAwareStep =>
        (Range(last_call'.selected) \cup last_call'.removed
            \cup Range(last_call'.evicted)) \cap BoundToVectorIn({Hot, Warm}) = {}]_vars

\* C7: evict(ModelAware) with n entries bound to Cold or Stale targets removes
\* min(3, n) of them, those with the lowest scores, and returns what it removed.
C7_EvictRemovesLowestThree ==
    [][ModelAwareStep =>
        LET eligible == BoundToVectorIn({Cold, Stale})
            removed == DOMAIN cache_evicons \ DOMAIN cache_evicons'
            score(k) == calculate_eviction_score(cache_evicons[k],
                                                 last_call'.strategy.weights)
        IN  /\ last_call'.result = "Ok"
            /\ removed \subseteq eligible
            /\ Cardinality(removed) = Min(3, Cardinality(eligible))
            /\ \A k \in removed : \A j \in eligible \ removed : score(k) <= score(j)
            /\ Range(last_call'.evicted) = removed
            /\ Len(last_call'.evicted) = Cardinality(removed)]_vars

\* C8: for enqueues followed by dequeues of the delegation queue, the popped
\* priorities never increase, and tasks of equal priority are popped in the
\* order they were enqueued, also when a higher priority was enqueued after a
\* lower one.
C8_PopsByPriorityThenFifo ==
    \A i, j \in 1..Len(popped) :
        i < j => /\ popped[i].priority >= popped[j].priority
                 /\ popped[i].priority = popped[j].priority
                        => popped[i].seq < popped[j].seq

\* Two tasks of one priority were popped in their order of submission while a
\* task of a lower priority, submitted before both, is still queued.
C8_Witness ==
    /\ Len(popped) >= 2
    /\ popped[1].priority = popped[2].priority
    /\ popped[1].seq < popped[2].seq
    /\ \E p \in DOMAIN delegation_queue : \E k \in DOMAIN delegation_queue[p] :
            /\ p < popped[1].priority
            /\ delegation_queue[p][k].seq < popped[1].seq

\* Monitor intervals in the timeout of a delegation.
TimeoutIntervals == TimeoutSeconds * TicksPerSecond

\* C9: a delegated task still running when its timeout elapses is terminated;
\* no node is Running later than the timeout plus one monitor interval after
\* it started.
C9_NoRunningPastTimeout ==
    \A id \in DOMAIN tree_nodes :
        (id # RootNodeId /\ tree_nodes[id].execution_state.kind = "Running")
            => now - tree_nodes[id].execution_state.at <= TimeoutIntervals + 1

\* The ids that are in the registry, or in a child set, or have a handle.
Remembered ==
    DOMAIN tree_nodes \cup DOMAIN active_processes
        \cup UNION {tree_nodes[p].child_node_ids : p \in DOMAIN tree_nodes}

\* C10: a node that reached Completed, Failed or Terminated is eventually
\* removed from the registry and from its parent's child set, with its handle
\* dropped (the claim adds a cache bust on its id).
C10_TerminalNodesAreRemoved ==
    \A id \in {"delegate-1", "delegate-2"} :
        (id \in DOMAIN tree_nodes
            /\ tree_nodes[id].execution_state.kind
                    \in {"Completed", "Failed", "Terminated"})
        ~> (id \notin Remembered)

\* C11: only Root and Intermediate delegators have a task executed; a request
\* of a Leaf or Isolated delegator spawns nothing, so no node is the child of
\* a Leaf or Isolated node.
C11_OnlyRootAndIntermediateDelegate ==
    \A id \in DOMAIN tree_nodes :
        LET parent == tree_nodes[id].parent_node_id
        IN  (parent # NoParent /\ parent \in DOMAIN tree_nodes)
                => tree_nodes[parent].delegation_authority \in {Root, Intermediate}

\* Whether the task carries a proof of work that validates.  A DelegationTask
\* has a challenge and no field for its solution, and nothing in the source
\* computes one: no submitted task carries a valid proof.
ProofValidates(task) == FALSE

\* C12: a task that requires proof-of-work and whose proof does not validate
\* is rejected before execution: it is never spawned, registered or given a
\* process handle, so the engine never monitors such a task.
C12_InvalidProofNeverSpawns ==
    engine.pc = "monitoring"
        => ~(engine.task.proof_required /\ ~ProofValidates(engine.task))

\* A step in which the processor receives a request whose delegator is not in
\* the registry.
UnknownDelegatorStep ==
    /\ delegation_channel # <<>>
    /\ delegation_channel' = Tail(delegation_channel)
    /\ Head(delegation_channel).delegator_node_id \notin DOMAIN tree_nodes

\* C13: a request whose delegator is not registered is answered with a
\* failure (delegator not found, no delegate node id); nothing is spawned, and
\* the registry, the handle map and the cache state stay as they were.
C13_UnknownDelegatorFails ==
    [][UnknownDelegatorStep =>
        /\ Len(responses') = Len(responses) + 1
        /\ responses'[Len(responses')] = Response("delegator_not_found", "")
        /\ ~responses'[Len(responses')].success
        /\ UNCHANGED <<tree_nodes, active_processes, next_uuid>>
        /\ UNCHANGED <<model_bindings, diram_dimensions, cache_evicons,
                       cache_entries>>]_vars

\* A request of an unregistered delegator has just been answered, after an
\* earlier delegation succeeded.
C13_Witness ==
    /\ Len(responses) >= 2
    /\ responses[Len(responses)].kind = "delegator_not_found"
    /\ responses[1].success
    /\ DOMAIN active_processes # {}

\* A step in which the watcher of t has seen its pid change and has notified
\* the cache manager (monitor_pid_changes returned).
PidChangeStep(t) ==
    /\ watchers[t].pc = "idle"
    /\ watchers'[t].pc = "notified"

\* C14: on a PID change of a bound target the binding's pid becomes the new
\* pid and the bust is High when the new pid is absent and Medium when it is
\* present.
C14_PidChangeSeverity ==
    [][\A t \in WatchedTargets :
        PidChangeStep(t) =>
            /\ model_bindings'[t].pid = watchers'[t].seen
            /\ last_call'.op = "bust_cache"
            /\ last_call'.target = t
            /\ last_call'.severity =
                    (IF watchers'[t].seen = NoPid THEN High ELSE Medium)]_vars

\* The busts of target t in the rebuild queue.
BustsOf(entries, t) == SelectSeq(entries, LAMBDA e : e.cache_id = t)

\* C15: one observed PID transition from absent to present results in
\* exactly one bust of the target, at severity Medium.  When the watcher has
\* notified the cache manager of such a transition, that bust is queued, and
\* the rest of the handling queues no other.
C15_OneMediumBustPerAppearance ==
    [][\A t \in WatchedTargets :
        (/\ watchers[t].pc = "notified"
         /\ watchers[t].current_pid = NoPid
         /\ watchers[t].seen # NoPid
         /\ watchers'[t].pc = "idle")
        => BustsOf(cache_entries', t) = BustsOf(cache_entries, t)]_vars

\* A step that is a call of attempt_recovery.
RecoveryStep == healingVars' # healingVars

\* The error carries a compliance flag: it names a compliance rule, or the
\* words the recovery takes for a constitutional violation.
ComplianceFlag(error) ==
    \/ \E rule_id \in DOMAIN compliance_rules :
            contains(error.message, rule_id) \/ contains(error.component, rule_id)
    \/ contains(error.message, "constitutional")
    \/ contains(error.message, "compliance")
    \/ contains(error.component, "constitution")

\* C16: for an error of severity Ok or Warning without a compliance flag,
\* attempt_recovery selects a Soft strategy, whatever the component.
C16_LowSeveritySelectsSoft ==
    [][(/\ RecoveryStep
        /\ recovery_call'.error.severity \in {"Ok", "Warning"}
        /\ ~ComplianceFlag(recovery_call'.error))
       => recovery_call'.strategy.kind = "SoftRecovery"]_vars

\* The operations that remedy automatically: retry, rebuild, restart.
Automated(operations) ==
    {i \in DOMAIN operations : operations[i].op \in {"refresh", "rebuild", "restart"}}

\* The call ran no automated remedy and asked for manual intervention, naming
\* whom to contact.
ManualOnly(call) ==
    /\ Automated(call.operations) = {}
    /\ call.result.kind = "ManualIntervention"
    /\ call.result.emergency_contacts # <<>>

\* C17: for an error of severity Panic, attempt_recovery runs no retry,
\* rebuild or restart and returns ManualIntervention with escalation contacts.
C17_PanicIsManualOnly ==
    [][(RecoveryStep /\ recovery_call'.error.severity = "Panic")
       => ManualOnly(recovery_call')]_vars

\* The error is tagged with the identifier of a compliance rule.
Tagged(error) ==
    \E rule_id \in DOMAIN compliance_rules :
        contains(error.message, rule_id) \/ contains(error.component, rule_id)

\* C18: an error tagged with a compliance-rule identifier gets
\* ManualIntervention with escalation contacts and no retry, rebuild or
\* restart, for every severity and every component.
C18_ComplianceViolationIsManual ==
    [][(RecoveryStep /\ Tagged(recovery_call'.error)) => ManualOnly(recovery_call')]_vars

\* A tagged error of the lowest severity, on a component registered for a
\* rebuild, was answered with ManualIntervention.
C18_Witness ==
    /\ Tagged(recovery_call.error)
    /\ recovery_call.error.severity = "Ok"
    /\ recovery_call.error.component = "c"
    /\ recovery_call.result.kind = "ManualIntervention"
    /\ Len(violation_history) = 1

\* C19: every call of attempt_recovery appends exactly one RecoveryAttempt to
\* recovery_history, whatever it returns.
C19_EveryAttemptRecorded ==
    [][RecoveryStep
       => /\ Len(recovery_history') = Len(recovery_history) + 1
          /\ SubSeq(recovery_history', 1, Len(recovery_history)) = recovery_history
          /\ recovery_history'[Len(recovery_history')].result = recovery_call'.result]_vars

\* The call ran the rebuild of a Hard strategy with force_rebuild, and the
\* rebuild failed.
RebuildFailedIn(call) ==
    /\ call.strategy.kind = "HardRecovery"
    /\ call.strategy.force_rebuild
    /\ \E i \in DOMAIN call.operations : call.operations[i] = Op("rebuild", "Err")

ConsensusScoreRisesByReportOnly ==
    [][\A n \in DOMAIN node_registry :
            \/ node_registry'[n].fault_score <= node_registry[n].fault_score
            \/ \E s \in ReportSeverities :
                    node_registry'[n].fault_score
                        = node_registry[n].fault_score + s * 10]_vars

\* The tasks the engine has taken from the queue: sent and no longer queued.
\* While the engine is idle every one of them had its node registered, for a
\* task that fails before its registration stops the engine.
Queued(task) ==
    \E p \in DOMAIN delegation_queue :
        \E i \in DOMAIN delegation_queue[p] : delegation_queue[p][i] = task

Executed == {task \in Range(task_channel) : ~Queued(task)}

\* The step in which the engine registers the node of a task.
RegistersNode == engine.pc = "idle" /\ engine'.pc = "monitoring"

\* C22: a node id that was registered once is never given to a later node:
\* the id the engine registers is the id of no task it has executed before.
C22_NodeIdsNeverReused ==
    [][RegistersNode
       => \A task \in Executed :
            ChildNodeId(task.task_id) # ChildNodeId(engine'.task.task_id)]_vars

\* A step that is a call of bind_model.
BindStep == last_call'.op = "bind_model"

\* C23: bind_model leaves the target with the binding it was given and a
\* vector that is Cold with score 0, whatever binding and vector the target
\* had before, and leaves every other target as it was: one binding and one
\* vector per target, the last one bound.
C23_BindReplaces ==
    [][BindStep
       => LET t == last_call'.target
          IN  /\ model_bindings' = MapInsert(model_bindings, t, last_call'.binding)
              /\ diram_dimensions' =
                    MapInsert(diram_dimensions, t,
                              [hot_path_score |-> 0, cache_state |-> "Cold"])
              /\ DOMAIN model_bindings' = DOMAIN diram_dimensions']_vars

\* A target that was busted (a rebuild request is queued for it) has just been
\* bound again, to a process, and has a Cold vector while the other target's
\* vector is Hot.
C23_Witness ==
    /\ last_call.op = "bind_model"
    /\ last_call.target = "t1"
    /\ last_call.binding.pid # NoPid
    /\ model_bindings["t1"].pid # NoPid
    /\ diram_dimensions["t1"].cache_state = Cold
    /\ \E i \in DOMAIN cache_entries : cache_entries[i].cache_id = "t1"
    /\ "t2" \in DOMAIN diram_dimensions
    /\ diram_dimensions["t2"].cache_state = Hot

\* Shutdown was requested of a daemon that was started.
ShutdownRequested == supervision # "new" /\ ~daemon_running

\* No thread of the daemon is in its loop and start_daemon has returned.
AllTasksEnded ==
    /\ \A t \in DOMAIN watchers : watchers[t].pc \in {"ended", "dead"}
    /\ \A t \in DOMAIN fs_threads : fs_threads[t] \in {"none", "ended", "dead"}
    /\ supervision \in {"returned", "dead"}

\* C24: once shutdown is requested, the PID threads, the filesystem watcher
\* threads and the supervision loop all end.
C24_ShutdownEndsEveryTask == ShutdownRequested ~> AllTasksEnded

\* stop returned Ok after signalling the task of a started daemon.
StopReturned == core_call = CoreCall("stop", "Ok", TRUE) /\ stop_pc = "idle"

\* C25: after stop() of a started daemon returned, the status becomes Stopped.
C25_StopLeadsToStopped == StopReturned ~> (core_status = "Stopped")

\* start on a daemon whose status is Stopped returns Ok, stop returns Ok.
StartAndStopSucceed ==
    [][/\ (core_call' # core_call /\ core_call'.op = "start" /\ core_status = "Stopped")
            => core_call'.result = "Ok"
       /\ (core_call' # core_call /\ core_call'.op = "stop")
            => core_call'.result = "Ok"]_vars

\* A task waits in some tier of the delegation queue.
TaskQueued == \E p \in DOMAIN delegation_queue : delegation_queue[p] # <<>>

\* C26: whenever a task is queued the engine's pop returns one: a drained
\* tier does not keep the tiers below it from being popped.
C26_QueuedTaskIsPopped == TaskQueued => PopsTask(delegation_queue)

\* The engine was started and a pop of the queue would return a task.
TaskAwaitsEngine == engine.pc # "new" /\ PopsTask(delegation_queue)

\* C27: whatever happened to the tasks executed before, a task the engine's
\* pop would return is eventually popped.
C27_EngineKeepsPopping == TaskAwaitsEngine ~> ~PopsTask(delegation_queue)

\* The processor answered a request, or dropped its response channel, without
\* a success response.
EndsWithoutSuccess ==
    /\ Len(responses') = Len(responses) + 1
    /\ ~responses'[Len(responses')].success

\* C28: a delegation request that ends without a success response leaves no
\* node, no entry in a child set and no process handle behind.
C28_FailedDelegationLeavesNothing ==
    [][EndsWithoutSuccess
       => tree_nodes' = tree_nodes /\ active_processes' = active_processes]_vars

\* The processor answered the request at the head of the channel with success.
DelegationSucceeds ==
    /\ Len(responses') = Len(responses) + 1
    /\ responses'[Len(responses')].success

\* C30: after a successful delegation by D the response carries the id of a
\* node that is new in the registry, Running, with parent D and in the child
\* set of D, and the process handle is stored under that id.
C30_SuccessRegistersDelegate ==
    [][DelegationSucceeds
       => LET D == Head(delegation_channel).delegator_node_id
              id == responses'[Len(responses')].delegate_node_id
          IN  /\ id \notin DOMAIN tree_nodes
              /\ id \in DOMAIN tree_nodes'
              /\ tree_nodes'[id].execution_state.kind = "Running"
              /\ tree_nodes'[id].parent_node_id = D
              /\ id \in tree_nodes'[D].child_node_ids
              /\ id \in DOMAIN active_processes'
              /\ active_processes'[id] = "running"
              /\ id \notin DOMAIN active_processes]_vars

\* A delegator that is itself a delegate got a successful delegation: the
\* second delegate hangs under the first.
C30_Witness ==
    \E i \in 1..Len(responses) :
        /\ responses[i].success
        /\ responses[i].delegate_node_id \in DOMAIN tree_nodes
        /\ tree_nodes[responses[i].delegate_node_id].parent_node_id # RootNodeId

\* C29: in every state a non-root node is registered exactly when its id is in
\* the child set of its parent: every registered node with a registered parent
\* is in that parent's child set, and every child id names a registered node.
C29_ParentChildConsistent ==
    /\ \A id \in DOMAIN tree_nodes :
          tree_nodes[id].parent_node_id \in DOMAIN tree_nodes
             => id \in tree_nodes[tree_nodes[id].parent_node_id].child_node_ids
    /\ \A id \in DOMAIN tree_nodes :
          \A child \in tree_nodes[id].child_node_ids : child \in DOMAIN tree_nodes

\* The place of an execution state on Pending -> Spawning -> Running ->
\* {Completed | Failed | Terminated}.
StateRank(kind) ==
    CASE kind = "Pending" -> 0
      [] kind = "Spawning" -> 1
      [] kind = "Running" -> 2
      [] OTHER -> 3

TerminalStates == {"Completed", "Failed", "Terminated"}

\* C31: the execution state of a node never moves backwards, and a node that
\* is Completed, Failed or Terminated keeps its execution state in every step.
C31_ExecutionStateMovesForward ==
    [][\A id \in DOMAIN tree_nodes \cap DOMAIN tree_nodes' :
          /\ StateRank(tree_nodes'[id].execution_state.kind)
                >= StateRank(tree_nodes[id].execution_state.kind)
          /\ tree_nodes[id].execution_state.kind \in TerminalStates
                => tree_nodes'[id].execution_state = tree_nodes[id].execution_state]_vars

\* A node went Completed or Failed at one tick of the monitor and the monitor
\* has ticked again since.
C31_Witness ==
    \E id \in DOMAIN tree_nodes :
        /\ tree_nodes[id].execution_state.kind \in TerminalStates
        /\ tree_nodes[id].execution_state.at < now

\* A tick of heartbeat_monitor taken more than the staleness window after the
\* daemon registered its root at time 0; no code sends a heartbeat for a node,
\* so none has arrived for the root since.
TickPastWindow == heartbeat_ticks' # heartbeat_ticks /\ clock' > StaleAfter

\* C32: a tick marks Critical a node from which no heartbeat arrived within
\* the staleness window, here the root.
C32_SilentNodeBecomesCritical ==
    [][TickPastWindow /\ RootNodeId \in DOMAIN nodes'
       => nodes'[RootNodeId].fault_level = FaultCritical]_vars

\* A tick leaves the fault level of a node whose last heartbeat is within the
\* window as it was, and sets the others to Critical.
TickFollowsLastHeartbeat ==
    [][heartbeat_ticks' # heartbeat_ticks
       => \A id \in DOMAIN nodes :
             nodes'[id].fault_level =
                IF clock' - nodes[id].last_heartbeat > StaleAfter
                THEN FaultCritical ELSE nodes[id].fault_level]_vars

\* consensus_threshold of FaultTorrentConfig::default, in percent.
ThresholdPercent == 67

Approvals(votes) == Cardinality({i \in DOMAIN votes : votes[i] = "Approve"})

\* The approving votes are at least the threshold fraction of the votes.
MeetsThreshold(votes) == Approvals(votes) * 100 >= ThresholdPercent * Len(votes)

\* C33: the consensus gate approves a task exactly when its approving votes
\* meet the threshold fraction of the votes recorded for it.
C33_ApprovesExactlyAtThreshold ==
    [][consensus_reached' # consensus_reached
       => \A task_id \in DOMAIN consensus_votes :
             task_id \in consensus_reached' <=> MeetsThreshold(consensus_votes[task_id])]_vars

TriesMade(call) == Len(call.operations) \div 2

\* The call slept backoff_ms * 2^(k - 1) before its k-th refresh.
BackedOff(call) ==
    /\ Len(call.operations) = 2 * TriesMade(call)
    /\ \A k \in 1..TriesMade(call) :
          /\ call.operations[2 * k - 1] =
                Op("sleep", ToString(call.strategy.backoff_ms * (2 ^ (k - 1))))
          /\ call.operations[2 * k].op = "refresh"

\* The call stopped at its first refresh that was Ok, with Success, or made
\* all its tries in vain and returned PartialRecovery naming the Hard strategy.
StopsAtFirstSuccess(call) ==
    LET n == TriesMade(call)
        refresh(k) == call.operations[2 * k].result
    IN  /\ n <= call.strategy.retry_count
        /\ \A k \in 1..(n - 1) : refresh(k) = "Err"
        /\ IF n > 0 /\ refresh(n) = "Ok"
           THEN call.result.kind = "Success"
           ELSE /\ n = call.strategy.retry_count
                /\ call.result.kind = "PartialRecovery"
                /\ call.result.next_strategy.kind = "HardRecovery"

\* C35: a Soft recovery with retry count N makes at most N tries, sleeps
\* backoff_ms * 2^(k - 1) before try k, returns Success at the first try whose
\* refresh and health check succeed, and after N tries in vain (also for
\* N = 0) returns PartialRecovery with the Hard strategy next.
C35_SoftRecoveryIsBounded ==
    [][(RecoveryStep /\ recovery_call'.strategy.kind = "SoftRecovery")
       => BackedOff(recovery_call') /\ StopsAtFirstSuccess(recovery_call')]_vars

\* A Soft recovery succeeded at its third try, and one with no try at all
\* returned PartialRecovery.
C35_Witness ==
    /\ Len(recovery_history) = 2
    /\ recovery_history[1].strategy.kind = "SoftRecovery"
    /\ recovery_history[1].strategy.retry_count = 0
    /\ recovery_history[1].result.kind = "PartialRecovery"
    /\ recovery_call.result.kind = "Success"
    /\ TriesMade(recovery_call) = 3

\* The attempt a call has recorded is the newest entry of the history.
NewestIsTheCall(history, call) ==
    /\ history # <<>>
    /\ history[Len(history)].component = call.error.component
    /\ history[Len(history)].strategy = call.strategy
    /\ history[Len(history)].result = call.result

\* after is before with the attempt appended and, where that is more than
\* 1000 entries, with some of the oldest entries taken away.
AppendedAndCut(before, after) ==
    \E cut \in 0..Len(before) :
        /\ Len(after) = Len(before) + 1 - cut
        /\ \A i \in 1..(Len(after) - 1) : after[i] = before[cut + i]
        /\ cut > 0 => Len(before) + 1 > 1000

\* C36: the recovery history holds at most 1000 entries; recording an attempt
\* appends it, a cut takes away only the oldest entries, the entries that stay
\* keep their order, and the newest attempt is always there.
C36_HistoryAppendOnlyAndBounded ==
    [][/\ Len(recovery_history') <= 1000
       /\ recovery_history' # recovery_history
          => /\ AppendedAndCut(recovery_history, recovery_history')
             /\ NewestIsTheCall(recovery_history', recovery_call')]_vars

\* An attempt was recorded in a history of 1000 entries, which was cut.
C36_Witness ==
    /\ Len(recovery_history) = 901
    /\ NewestIsTheCall(recovery_history, recovery_call)

\* The system is in the restricted isolation mode.
LockedDown(protocols) ==
    /\ protocols.lockdown_enabled
    /\ protocols.system_isolation_level = "ConstitutionalEmergency"

\* C37: once a recovery has enabled the lockdown and raised the isolation
\* level to ConstitutionalEmergency, no later attempt_recovery clears the
\* lockdown or lowers the isolation level.
C37_LockdownStays ==
    [][LockedDown(emergency_protocols) => LockedDown(emergency_protocols')]_vars

\* The lockdown flag itself is never cleared by a recovery.
LockdownFlagStays ==
    [][emergency_protocols.lockdown_enabled => emergency_protocols'.lockdown_enabled]_vars

\* The classes of files the mapping names, by extension.
SourceExtensions == {"rs", "c", "cpp", "h", "hpp", "py", "js", "ts"}
LockfileExtensions == {"lock", "sum"}
DocsExtensions == {"md", "txt", "png", "jpg", "svg"}
ConfigExtensions == {"toml", "json", "yaml", "yml", "ini", "conf"}
UnknownFileType(extension) ==
    extension \notin SourceExtensions \cup LockfileExtensions \cup DocsExtensions
                     \cup ConfigExtensions

\* The severity the mapping gives a change of a file.
MappedSeverity(event) ==
    IF event.extension \in SourceExtensions
    THEN IF event.kind = "Remove" THEN High ELSE Medium
    ELSE IF event.extension \in LockfileExtensions THEN Critical
    ELSE IF event.extension \in DocsExtensions THEN Low
    ELSE Medium

\* The changes the mapping speaks of: any change of a source file, and the
\* writes and creations of the other files.
MappingCovers(event) ==
    \/ event.extension \in SourceExtensions
    \/ event.kind # "Remove" /\ event.extension \notin ConfigExtensions

\* C38: the cache is busted with the severity the mapping gives the changed
\* file: Medium for a written source file and High for a removed one, Critical
\* for a lockfile, Low for docs and assets, Medium for an unknown file type.
C38_SeverityFollowsExtension ==
    [][\A t \in WatchedTargets, event \in FsEvents, redis \in RedisOutcomes :
          (MappingCovers(event) /\ watch_filesystem(t, event, redis))
          => last_call'.severity = MappedSeverity(event)]_vars

\* The parts of the mapping the watcher follows: a removed source file, a
\* lockfile, docs and assets, and a file without extension.
SeverityFollowsExtensionInPart ==
    [][\A t \in WatchedTargets, event \in FsEvents, redis \in RedisOutcomes :
          (/\ MappingCovers(event)
           /\ ~(event.extension \in SourceExtensions /\ event.kind # "Remove")
           /\ ~(UnknownFileType(event.extension) /\ event.extension # "")
           /\ watch_filesystem(t, event, redis))
          => last_call'.severity = MappedSeverity(event)]_vars

\* Call i of delegate_task has not returned.
Waits(i) == i \in DOMAIN callers /\ callers[i].outcome = "waiting"

\* C39: every call of delegate_task returns, with a response or an error, no
\* later than delegation_timeout_seconds after it was made, also when the
\* processor has stopped, fails on the request or drops the response channel.
C39_DelegateTaskReturnsInTime ==
    /\ \A i \in 1..MaxRequests : Waits(i) ~> ~Waits(i)
    /\ [](\A i \in 1..MaxRequests : Waits(i) => now <= callers[i].deadline)

\* With the processor stopped, one call returned for its dropped channel and
\* one, whose request stays in the queue, for its timeout.
C39_Witness ==
    /\ processor = "panicked"
    /\ Len(callers) = 2
    /\ callers[1].outcome = "RecvError"
    /\ callers[2].outcome = "Elapsed"
    /\ delegation_channel # <<>>

\* A call of cache_evict has been made by the step.
EvictStep == last_call'.op = "cache_evict"

\* C40: cache_evict with MRU, LFU or FIFO removes no entry and returns the
\* empty list, and cache_evict with any strategy leaves the vectors, the
\* bindings and the rebuild queue as they were.
C40_EvictFrame ==
    [][EvictStep
       => /\ UNCHANGED <<diram_dimensions, model_bindings, cache_entries>>
          /\ last_call'.strategy.kind \in {"MRU", "LFU", "FIFO"}
             => /\ cache_evicons' = cache_evicons
                /\ last_call'.result = "Ok"
                /\ last_call'.evicted = <<>>]_vars

\* cache_evict with FIFO was called on a cache that holds entries, a bound
\* target and a queued rebuild.
C40_Witness ==
    /\ last_call.op = "cache_evict"
    /\ last_call.strategy.kind = "FIFO"
    /\ DOMAIN cache_evicons # {}
    /\ DOMAIN diram_dimensions # {}
    /\ cache_entries # <<>>

====
